---- MODULE Spec2Model ----
(***************************************************************************)
(* A model of game_planner.py (the market-data pipeline of the Streamlit   *)
(* game-planning app): the SteamSpy owners-range parser, the fetch layer,  *)
(* the aggregation and report formatter, and the three-step session with   *)
(* its time-to-live caches.                                                *)
(*                                                                         *)
(* Python values are modelled as records with a "kind" field, so that None,*)
(* a failure string and a dict can be told apart as isinstance() does.     *)
(* A Python str that the code parses character by character is modelled as *)
(* a sequence of one-character strings.                                    *)
(***************************************************************************)
EXTENDS Integers, Sequences, FiniteSets, TLC

\* ---- the owners-range parser (SpecParse) ----
VARIABLES owners_str, parsed

vars_parse == <<owners_str, parsed>>

\* ---- the session (Spec): st.session_state, the sidebar widgets, the clock ----
VARIABLES step, trend_data, trend_keywords, game_ideas, selected_idea,
          design_doc, market_analysis,
          steam_data, steam_data_recent_years, steam_data_time,
          steamspy_genre_data, steamspy_genre_time,
          rawg_data, rawg_data_time,
          recent_years, use_google_trends, region_choice, rawg_key,
          now, last_run, last_report, doc_log

vars_keys == <<step, trend_data, trend_keywords, game_ideas, selected_idea,
               design_doc, market_analysis>>

vars_cache == <<steam_data, steam_data_recent_years, steam_data_time,
                steamspy_genre_data, steamspy_genre_time,
                rawg_data, rawg_data_time>>

vars_widgets == <<recent_years, use_google_trends, region_choice, rawg_key>>

vars_session ==
    <<vars_keys, vars_cache, vars_widgets, now, last_run, last_report, doc_log>>

\* ---- the fetch layer and the formatters on data (SpecMarket) ----
\* called: the fetch function called last; served: what the providers
\* answered to it; returned: its return value; rendered: what a formatter
\* or the Step-2 price tab made of the return value.
VARIABLES called, served, returned, rendered

vars_market == <<called, served, returned, rendered>>

\* ---- start-up: the API key in secrets.toml, and the scripts whose last
\* run was stopped at the credential check ----
VARIABLES secret, stopped

vars_start == <<secret, stopped>>

\* ---- FanDNA.py: st.session_state of the team-matching app ----
VARIABLES fan_step, fan_questions, fan_answers, fan_result

vars_fan == <<fan_step, fan_questions, fan_answers, fan_result>>

\* ---- the reply of the AI provider, by lines, and what was parsed from it ----
VARIABLES ai_reply, ai_parsed

vars_text == <<ai_reply, ai_parsed>>

\* ---- one run of the SteamSpy fetches, thread by thread: the worker pool
\* of fetch_steam_top100, the list of recent games, the position of the
\* calling thread, the requests in flight and the last request sent ----
VARIABLES pool, run_recent, run, in_flight, sent

vars_run == <<pool, run_recent, run, in_flight, sent>>

\* ---- the st.cache_data store of fetch_trends, one per server process, and
\* what the fetch_trends call of each browser session returned ----
VARIABLES trends_cache, obtained

vars_shared == <<trends_cache, obtained>>

\* ---- an owner count and the text _format_owners makes of it ----
VARIABLES owner_count, owner_text

vars_owners == <<owner_count, owner_text>>

vars == <<vars_parse, vars_session, vars_market, vars_start, vars_fan, vars_text,
          vars_run, vars_shared, vars_owners>>

\* What the actions of one part leave alone.
vars_but_parse ==
    <<vars_session, vars_market, vars_start, vars_fan, vars_text,
      vars_run, vars_shared, vars_owners>>

vars_but_session ==
    <<vars_parse, vars_market, vars_start, vars_fan, vars_text,
      vars_run, vars_shared, vars_owners>>

vars_but_market ==
    <<vars_parse, vars_session, vars_start, vars_fan, vars_text,
      vars_run, vars_shared, vars_owners>>

vars_but_start ==
    <<vars_parse, vars_session, vars_market, vars_fan, vars_text,
      vars_run, vars_shared, vars_owners>>

vars_but_fan ==
    <<vars_parse, vars_session, vars_market, vars_start, vars_text,
      vars_run, vars_shared, vars_owners>>

vars_but_text ==
    <<vars_parse, vars_session, vars_market, vars_start, vars_fan,
      vars_run, vars_shared, vars_owners>>

vars_but_run ==
    <<vars_parse, vars_session, vars_market, vars_start, vars_fan,
      vars_text, vars_shared, vars_owners>>

vars_but_shared ==
    <<vars_parse, vars_session, vars_market, vars_start, vars_fan,
      vars_text, vars_run, vars_owners>>

vars_but_owners ==
    <<vars_parse, vars_session, vars_market, vars_start, vars_fan,
      vars_text, vars_run, vars_shared>>

(***************************************************************************)
(* Python values                                                           *)
(***************************************************************************)
None == [kind |-> "None"]

\* A failure string returned by a fetch function (isinstance(x, str)).
FailStr(msg) == [kind |-> "str", msg |-> msg]

IsStr(x) == x.kind = "str"

IsDict(x) == x.kind = "dict"

\* The marker of an exception that propagates out of the modelled function.
EXC == [kind |-> "exception"]

RECURSIVE SumSeq(_)
SumSeq(s) == IF s = <<>> THEN 0 ELSE Head(s) + SumSeq(Tail(s))

\* s[:n]
Take(s, n) == IF Len(s) <= n THEN s ELSE SubSeq(s, 1, n)

(***************************************************************************)
(* _parse_owners: str.replace(",", ""), str.split(".."), str.strip(),      *)
(* int().  int() is modelled on the characters the inputs are drawn from:  *)
(* decimal digits parse, anything else (a letter, an inner blank, a lone   *)
(* dot, the empty string) raises ValueError.                               *)
(***************************************************************************)
Digits == <<"0", "1", "2", "3", "4", "5", "6", "7", "8", "9">>

IsDigit(c) == \E i \in 1..10 : Digits[i] = c

DigitVal(c) == (CHOOSE i \in 1..10 : Digits[i] = c) - 1

\* owners_str.replace(",", "")
RemoveCommas(s) == SelectSeq(s, LAMBDA c : c # ",")

\* str.split(".."): non-overlapping separators, scanned left to right.
RECURSIVE SplitFrom(_, _, _, _)
SplitFrom(s, i, cur, acc) ==
    IF i > Len(s) THEN Append(acc, cur)
    ELSE IF i < Len(s) /\ s[i] = "." /\ s[i + 1] = "."
         THEN SplitFrom(s, i + 2, <<>>, Append(acc, cur))
         ELSE SplitFrom(s, i + 1, Append(cur, s[i]), acc)

SplitDots(s) == SplitFrom(s, 1, <<>>, <<>>)

\* str.strip() (blanks are the only whitespace the inputs hold)
RECURSIVE LStrip(_)
LStrip(s) == IF s # <<>> /\ Head(s) = " " THEN LStrip(Tail(s)) ELSE s

RECURSIVE RStrip(_)
RStrip(s) ==
    IF s # <<>> /\ s[Len(s)] = " " THEN RStrip(SubSeq(s, 1, Len(s) - 1)) ELSE s

Strip(s) == RStrip(LStrip(s))

RECURSIVE DecimalValue(_)
DecimalValue(s) ==
    IF s = <<>> THEN 0
    ELSE 10 * DecimalValue(SubSeq(s, 1, Len(s) - 1)) + DigitVal(s[Len(s)])

\* int(s): [err |-> TRUE] stands for ValueError.
IntOf(s) ==
    LET t == Strip(s)
    IN  IF t # <<>> /\ \A i \in 1..Len(t) : IsDigit(t[i])
        THEN [err |-> FALSE, val |-> DecimalValue(t)]
        ELSE [err |-> TRUE, val |-> 0]

_parse_owners(s) ==
    LET parts == SplitDots(RemoveCommas(s))
        low == IntOf(Strip(parts[1]))
        high == IF Len(parts) > 1 THEN IntOf(Strip(parts[2])) ELSE low
    IN  IF low.err \/ high.err THEN 0 ELSE (low.val + high.val) \div 2

\* ---- inputs of the parser ----
MaxStrLen == 6

Chars == {"1", "2", ",", ".", " ", "x"}

\* "10,000 .. 20,000"
SampleOwners ==
    <<"1", "0", ",", "0", "0", "0", " ", ".", ".", " ",
      "2", "0", ",", "0", "0", "0">>

InitParse ==
    /\ owners_str = <<>>
    /\ parsed = _parse_owners(<<>>)

TypeChar(c) ==
    /\ Len(owners_str) < MaxStrLen
    /\ owners_str' = Append(owners_str, c)
    /\ parsed' = _parse_owners(owners_str')
    /\ UNCHANGED vars_but_parse

LoadSample ==
    /\ owners_str = <<>>
    /\ owners_str' = SampleOwners
    /\ parsed' = _parse_owners(owners_str')
    /\ UNCHANGED vars_but_parse

(***************************************************************************)
(* The session.  Program constants and the sidebar.                        *)
(***************************************************************************)
CACHE_TTL == 3600

\* The clock advances in steps of TimeStep up to MaxTime.
TimeStep == 1800

MaxTime == 3600

\* Values of the "recent N years" slider (1..20 in the app).
YearChoices == {3, 5}

\* REGIONS: label -> code; "Korea" is the first key, the default.
RegionLabels == <<"Korea", "US", "Japan", "Global">>

REGIONS(label) ==
    CASE label = "Korea" -> "KR"
      [] label = "US" -> "US"
      [] label = "Japan" -> "JP"
      [] OTHER -> ""

\* The regions the select box is driven to.
RegionChoices == {"Korea", "Global"}

\* SEED_KEYWORDS, two entries of each list.
SEED_KEYWORDS(code) ==
    CASE code = "KR" -> {"kr:mobilegame", "RPG"}
      [] code = "US" -> {"mobile game", "RPG"}
      [] code = "JP" -> {"jp:mobilegame", "RPG"}
      [] OTHER -> {"mobile game", "survival"}

KEYWORD_CAP == 20

\* bool(x)
Truthy(x) ==
    CASE x.kind = "None" -> FALSE
      [] x.kind = "list" -> x.items # <<>>
      [] x.kind = "doc" -> x.text # ""
      [] OTHER -> TRUE

PyInt(n) == [kind |-> "int", v |-> n]

PyList(items) == [kind |-> "list", items |-> items]

\* What a provider returned: the request parameters it was asked with and
\* the time of the request identify the data.
SteamPayload(years, t) == [kind |-> "dict", src |-> "steam", years |-> years, at |-> t]

RawgPayload(years, t) == [kind |-> "dict", src |-> "rawg", years |-> years, at |-> t]

ListingPayload(what, t) == [kind |-> "dict", src |-> what, at |-> t]

TrendPayload(extracted) == [kind |-> "dict", src |-> "trends", extracted |-> extracted]

selected_region == IF use_google_trends THEN region_choice ELSE RegionLabels[1]

region_code == REGIONS(selected_region)

\* ---- outcomes of the calls a Step-1 run makes ----
\* fetch_trends: the failure string, or data with or without related queries.
TrendOutcomes == {FailStr("trends"), TrendPayload({"roguelike"})}

FetchOutcomes == {"ok", "fail"}

\* _call_ai + json.loads in generate_market_analysis: a dict, an exception
\* (API error, invalid JSON), or valid JSON that is not an object.
AnalysisOutcomes == {"dict", "exc", "list"}

\* _call_ai + json.loads in generate_game_ideas: a list of ideas, an
\* exception (API error, invalid JSON), the empty list, or valid JSON that
\* is an object and no list.
IdeaOutcomes == {"ideas", "exc", "empty", "object"}

\* _call_ai in generate_design_document: the document, an exception, a
\* reply without content (None), an empty reply.
DocOutcomes == {"doc", "exc", "none", "empty"}

\* Page runs that ask for a design document for one selection.
MaxDocCalls == 2

Step1FetchSteam(years, out) ==
    IF out = "ok" THEN SteamPayload(years, now) ELSE FailStr("steam")

Step1FetchGenres(out) ==
    IF out = "ok" THEN ListingPayload("genres", now) ELSE FailStr("genres")

Step1FetchTags(out) ==
    IF out = "ok" THEN ListingPayload("tags", now) ELSE FailStr("tags")

Step1FetchRawg(years, out) ==
    IF ~rawg_key THEN FailStr("rawg key")
    ELSE IF out = "ok" THEN RawgPayload(years, now) ELSE FailStr("rawg")

\* extract_trend_keywords
extract_trend_keywords(td) == IF IsStr(td) THEN {} ELSE td.extracted

\* list(set(extracted + seed))[:20]: any KEYWORD_CAP of the union.
CappedUnion(a, b) ==
    IF Cardinality(a \cup b) <= KEYWORD_CAP THEN {a \cup b}
    ELSE {k \in SUBSET (a \cup b) : Cardinality(k) = KEYWORD_CAP}

generate_market_analysis(out) ==
    CASE out = "dict" -> [kind |-> "dict", src |-> "analysis"]
      [] out = "list" -> PyList(<<"x">>)
      [] OTHER -> EXC

\* generate_game_ideas: "analysis = market_analysis or {}" and
\* analysis.get(...) come before the AI call.
generate_game_ideas(analysis, out) ==
    IF Truthy(analysis) /\ ~IsDict(analysis) THEN EXC
    ELSE CASE out = "ideas" -> PyList(<<"A", "B">>)
           [] out = "empty" -> PyList(<<>>)
           [] out = "object" -> [kind |-> "dict", src |-> "ideas"]
           [] OTHER -> EXC

generate_design_document(idea, out) ==
    CASE out = "doc" -> [kind |-> "doc", idea |-> idea, text |-> "md"]
      [] out = "empty" -> [kind |-> "doc", idea |-> idea, text |-> ""]
      [] out = "none" -> None
      [] OTHER -> EXC

\* ---- the cache checks of a Step-1 run ----
\* SteamCacheValid without the comparison of the stored filter value.
SteamCacheValidNoYears ==
    /\ steam_data # None
    /\ ~IsStr(steam_data)
    /\ (now - steam_data_time) < CACHE_TTL

SteamCacheValid ==
    /\ steam_data # None
    /\ ~IsStr(steam_data)
    /\ steam_data_recent_years = PyInt(recent_years)
    /\ (now - steam_data_time) < CACHE_TTL

GenreCacheValid ==
    /\ steamspy_genre_data # None
    /\ ~IsStr(steamspy_genre_data)
    /\ (now - steamspy_genre_time) < CACHE_TTL

RawgCacheValid ==
    /\ rawg_data # None
    /\ ~IsStr(rawg_data)
    /\ (now - rawg_data_time) < CACHE_TTL

\* The arguments a call site hands to format_comprehensive_analysis.
ReportOf(by, steam, rawg, genres, tags, years) ==
    [kind |-> "report", by |-> by, steam |-> steam, rawg |-> rawg,
     genres |-> genres, tags |-> tags, years |-> years, at |-> now]

(***************************************************************************)
(* The AI reply as text.  generate_market_analysis and generate_game_ideas *)
(* take the reply with .strip(), drop the fence lines when the text starts *)
(* with a fence, and hand the rest to json.loads.  A text is a sequence of *)
(* characters; json.loads is modelled on the grammar the inputs can spell: *)
(* whitespace, unsigned integers without leading zero and arrays.  Any     *)
(* other character, a missing value and data after the value raise         *)
(* JSONDecodeError.                                                        *)
(***************************************************************************)
Whitespace == {" ", "\n"}

\* text.strip()
RECURSIVE LStripText(_)
LStripText(s) == IF s # <<>> /\ Head(s) \in Whitespace THEN LStripText(Tail(s)) ELSE s

RECURSIVE RStripText(_)
RStripText(s) ==
    IF s # <<>> /\ s[Len(s)] \in Whitespace
    THEN RStripText(SubSeq(s, 1, Len(s) - 1)) ELSE s

StripText(s) == RStripText(LStripText(s))

\* The backquote character.
Backquote == "backquote"

\* s.startswith(three backquotes)
StartsWithFence(s) ==
    Len(s) >= 3 /\ s[1] = Backquote /\ s[2] = Backquote /\ s[3] = Backquote

\* text.split("\n")
RECURSIVE SplitLinesFrom(_, _, _, _)
SplitLinesFrom(s, i, cur, acc) ==
    IF i > Len(s) THEN Append(acc, cur)
    ELSE IF s[i] = "\n" THEN SplitLinesFrom(s, i + 1, <<>>, Append(acc, cur))
         ELSE SplitLinesFrom(s, i + 1, Append(cur, s[i]), acc)

SplitLines(s) == SplitLinesFrom(s, 1, <<>>, <<>>)

\* "\n".join(lines)
RECURSIVE JoinLines(_)
JoinLines(lines) ==
    IF lines = <<>> THEN <<>>
    ELSE IF Len(lines) = 1 THEN lines[1]
         ELSE lines[1] \o <<"\n">> \o JoinLines(Tail(lines))

\* The index of the first character at or after i that is not whitespace.
RECURSIVE SkipWhitespace(_, _)
SkipWhitespace(s, i) ==
    IF i <= Len(s) /\ s[i] \in Whitespace THEN SkipWhitespace(s, i + 1) ELSE i

RECURSIVE DigitsEnd(_, _)
DigitsEnd(s, i) == IF i <= Len(s) /\ IsDigit(s[i]) THEN DigitsEnd(s, i + 1) ELSE i

NoParse == [ok |-> FALSE, val |-> None, next |-> 0]

\* The JSON value that starts at or after position i, and where it ends.
RECURSIVE ParseValue(_, _)
RECURSIVE ParseItems(_, _, _)
ParseValue(s, i) ==
    LET j == SkipWhitespace(s, i)
    IN  IF j > Len(s) THEN NoParse
        ELSE IF IsDigit(s[j])
        THEN LET k == DigitsEnd(s, j)
             IN  IF s[j] = "0" /\ k > j + 1 THEN NoParse
                 ELSE [ok |-> TRUE, val |-> PyInt(DecimalValue(SubSeq(s, j, k - 1))),
                       next |-> k]
        ELSE IF s[j] = "["
        THEN LET k == SkipWhitespace(s, j + 1)
             IN  IF k <= Len(s) /\ s[k] = "]"
                 THEN [ok |-> TRUE, val |-> PyList(<<>>), next |-> k + 1]
                 ELSE ParseItems(s, j + 1, <<>>)
        ELSE NoParse

ParseItems(s, i, acc) ==
    LET v == ParseValue(s, i)
        k == SkipWhitespace(s, v.next)
    IN  IF ~v.ok \/ k > Len(s) THEN NoParse
        ELSE IF s[k] = "," THEN ParseItems(s, k + 1, Append(acc, v.val))
        ELSE IF s[k] = "]"
        THEN [ok |-> TRUE, val |-> PyList(Append(acc, v.val)), next |-> k + 1]
        ELSE NoParse

\* json.loads(text)
json_loads(s) ==
    LET v == ParseValue(s, 1)
    IN  IF v.ok /\ SkipWhitespace(s, v.next) > Len(s) THEN v.val ELSE EXC

\* lines = [ln for ln in lines if not ln.strip().startswith(three backquotes)]
drop_fence_lines(lines) ==
    SelectSeq(lines, LAMBDA ln : ~StartsWithFence(StripText(ln)))

\* text = _call_ai(...).strip(); the fence removal; return json.loads(text)
parse_reply(raw) ==
    LET text == StripText(raw)
    IN  IF StartsWithFence(text)
        THEN json_loads(JoinLines(drop_fence_lines(SplitLines(text))))
        ELSE json_loads(text)

\* The lines the replies are made of.
ReplyLines ==
    { <<Backquote, Backquote, Backquote>>,
      <<Backquote, Backquote, Backquote, "j", "s", "o", "n">>,
      <<"[", "1", ",">>,
      <<" ", "2", "]">>,
      <<"[", "1", "]">> }

MaxReplyLines == 5

InitText ==
    /\ ai_reply = <<>>
    /\ ai_parsed = None

\* The provider writes one more line of its reply.
ReplyLine(ln) ==
    /\ ai_parsed = None
    /\ Len(ai_reply) < MaxReplyLines
    /\ ai_reply' = Append(ai_reply, ln)
    /\ UNCHANGED ai_parsed
    /\ UNCHANGED vars_but_text

\* generate_market_analysis receives the reply.
ParseAnalysis ==
    /\ ai_parsed = None
    /\ ai_reply # <<>>
    /\ ai_parsed' = [by |-> "generate_market_analysis",
                     value |-> parse_reply(JoinLines(ai_reply))]
    /\ UNCHANGED ai_reply
    /\ UNCHANGED vars_but_text

\* generate_game_ideas receives the reply.
ParseIdeas ==
    /\ ai_parsed = None
    /\ ai_reply # <<>>
    /\ ai_parsed' = [by |-> "generate_game_ideas",
                     value |-> parse_reply(JoinLines(ai_reply))]
    /\ UNCHANGED ai_reply
    /\ UNCHANGED vars_but_text

NextText ==
    \/ \E ln \in ReplyLines : ReplyLine(ln)
    \/ ParseAnalysis
    \/ ParseIdeas

(***************************************************************************)
(* The browser sessions of one server process, and the empty cache of      *)
(* @st.cache_data(ttl=3600) def fetch_trends(region_code).                 *)
(***************************************************************************)
Sessions == {"A", "B"}

RegionCodes == {REGIONS(label) : label \in RegionChoices}

InitShared ==
    /\ trends_cache = [code \in RegionCodes |-> None]
    /\ obtained = [s \in Sessions |-> None]

(***************************************************************************)
(* The run of the SteamSpy fetches before fetch_steam_top100 is called.    *)
(***************************************************************************)
Endpoints == {"store", "appdetails", "genre", "tag"}

NoPool == [submitted |-> 0, started |-> 0, running |-> 0,
           done |-> [recent |-> 0, other |-> 0], collected |-> 0]

InitRun ==
    /\ pool = NoPool
    /\ run_recent = <<>>
    /\ run = [pc |-> "idle", i |-> 0, req |-> "top", delay |-> 0, games |-> 0,
              last |-> "none", details |-> 0, error |-> FALSE]
    /\ in_flight = [e \in Endpoints |-> 0]
    /\ sent = None

(***************************************************************************)
(* _format_owners.  A text is the sequence of its characters; Man stands   *)
(* for the Korean numeral of ten thousand that ends the long form.         *)
(***************************************************************************)
Man == "man"

MAN_UNIT == 10000

\* The decimal digits of n.
RECURSIVE DigitsOf(_)
DigitsOf(n) ==
    IF n < 10 THEN <<Digits[n + 1]>>
    ELSE Append(DigitsOf(n \div 10), Digits[(n % 10) + 1])

\* f"{n:,}" on the digits of n: a comma before every group of three digits
\* counted from the right.
RECURSIVE Grouped(_)
Grouped(d) ==
    IF Len(d) <= 3 THEN d
    ELSE Grouped(SubSeq(d, 1, Len(d) - 3)) \o <<",">> \o SubSeq(d, Len(d) - 2, Len(d))

\* _format_owners with the long form counted in thousands.
_format_owners_in_thousands(count) ==
    IF count >= MAN_UNIT THEN Append(Grouped(DigitsOf(count \div 1000)), Man)
    ELSE Grouped(DigitsOf(count))

_format_owners(count) ==
    IF count >= MAN_UNIT THEN Append(Grouped(DigitsOf(count \div MAN_UNIT)), Man)
    ELSE Grouped(DigitsOf(count))

\* The owner counts formatted: the multiples of CountStep, the counts
\* around the unit and the docstring's numbers.
CountStep == 2500

MaxCountSteps == 60

OwnerCounts ==
    {k * CountStep : k \in 0..MaxCountSteps}
    \cup {999, 1000, 9999, 10000, 1500000, 15000000}

InitOwners ==
    /\ owner_count = 0
    /\ owner_text = None

\* An owner count reaches a formatter line.
TakeCount(count) ==
    /\ owner_count' = count
    /\ owner_text' = None
    /\ UNCHANGED vars_but_owners

\* _format_owners(owners)
FormatOwners ==
    /\ owner_text = None
    /\ owner_text' = [chars |-> _format_owners(owner_count)]
    /\ UNCHANGED owner_count
    /\ UNCHANGED vars_but_owners

NextOwners ==
    \/ \E count \in OwnerCounts : TakeCount(count)
    \/ FormatOwners

(***************************************************************************)
(* Start-up.  Both scripts begin every run with the credential check:      *)
(* st.error(...) and st.stop() unless API_KEY is in st.secrets, non-empty  *)
(* and not the placeholder.  AI_PROVIDER is "openai".                      *)
(***************************************************************************)
PLACEHOLDER_KEY == "your-openai-api-key"

NoSecret == [present |-> FALSE, value |-> ""]

Secret(v) == [present |-> TRUE, value |-> v]

Secrets == {NoSecret, Secret(""), Secret(PLACEHOLDER_KEY), Secret("sk-live")}

\* CredentialOk without the comparison with the placeholder.
CredentialOkNoPlaceholder(s) == s.present /\ s.value # ""

CredentialOk(s) == ~(~s.present \/ s.value = "" \/ s.value = PLACEHOLDER_KEY)

\* A key of st.session_state that has not been set.
Absent == [kind |-> "absent"]

\* step and FanDNA's step before the key "step" is set.
NoStep == 0

FanNoStep == "absent"

\* Both scripts have run past the credential check before.
InitStarted ==
    /\ secret = Secret("sk-live")
    /\ stopped = {}

(***************************************************************************)
(* FanDNA.py: start -> survey -> analyzing -> result.                      *)
(***************************************************************************)
\* generate_survey_questions: json.loads of the reply; a list is returned
\* as it is, of a dict the entry "questions" (or "survey", or []); any
\* exception gives [].
MaxQuestions == 2

QuestionIds == <<"q1", "q2", "q3">>

\* The replies to the question prompt: an API error or a reply that is no
\* JSON, a list of questions, a dict that holds the list under "questions"
\* or under "survey", a dict without either, a dict whose "questions" is a
\* text.
QuestionReplies ==
    {[kind |-> "error"], [kind |-> "dict"],
     [kind |-> "dict", questions |-> [kind |-> "str", chars |-> <<"q">>]]} \cup
    UNION {{PyList(SubSeq(QuestionIds, 1, n)),
            [kind |-> "dict", questions |-> PyList(SubSeq(QuestionIds, 1, n))],
            [kind |-> "dict", survey |-> PyList(SubSeq(QuestionIds, 1, n))]} :
           n \in 0..MaxQuestions}

generate_survey_questions(data) ==
    IF data.kind = "error" THEN PyList(<<>>)
    ELSE IF data.kind = "list" THEN data
    ELSE IF "questions" \in DOMAIN data THEN data.questions
    ELSE IF "survey" \in DOMAIN data THEN data.survey
    ELSE PyList(<<>>)

\* get_recommendation: the parsed reply, None on any exception.
RecommendationReplies == {"result", "error"}

get_recommendation(user_answers, reply) ==
    IF reply = "result" THEN [kind |-> "dict", answers |-> user_answers] ELSE None

InitFan ==
    /\ fan_step = "start"
    /\ fan_answers = PyList(<<>>)
    /\ fan_questions = PyList(<<>>)
    /\ fan_result = Absent

\* start: the "start analysis" button.
FanStart(reply) ==
    /\ CredentialOk(secret)
    /\ fan_step = "start"
    /\ LET questions == generate_survey_questions(reply)
       IN  IF Truthy(questions)
           THEN /\ fan_questions' = questions
                /\ fan_step' = "survey"
           ELSE UNCHANGED <<fan_questions, fan_step>>
    /\ UNCHANGED <<fan_answers, fan_result, vars_but_fan>>

\* The values of the options of a question.
FanOptions == {"tradition", "trendy"}

\* survey: the form is submitted with one option chosen per question.
FanSubmit(choices) ==
    /\ CredentialOk(secret)
    /\ fan_step = "survey"
    /\ fan_answers' = PyList(choices)
    /\ fan_step' = "analyzing"
    /\ UNCHANGED <<fan_questions, fan_result, vars_but_fan>>

\* analyzing: a run of the page asks for the recommendation.
FanAnalyze(reply) ==
    /\ CredentialOk(secret)
    /\ fan_step = "analyzing"
    /\ LET result == get_recommendation(fan_answers, reply)
       IN  IF Truthy(result)
           THEN /\ fan_result' = result
                /\ fan_step' = "result"
           ELSE UNCHANGED <<fan_result, fan_step>>
    /\ UNCHANGED <<fan_questions, fan_answers, vars_but_fan>>

\* result: the "take the test again" button, the only way back to start.
FanRestart ==
    /\ CredentialOk(secret)
    /\ fan_step = "result"
    /\ fan_step' = "start"
    /\ fan_answers' = PyList(<<>>)
    /\ UNCHANGED <<fan_questions, fan_result, vars_but_fan>>

\* The forms the survey page can submit: for q in selected_questions reads
\* q['question'] and q['options'] of every question, so no form is rendered
\* of questions that are no list.
FanForms ==
    IF fan_questions.kind = "list"
    THEN [1..Len(fan_questions.items) -> FanOptions]
    ELSE {}

NextFan ==
    \/ \E reply \in QuestionReplies : FanStart(reply)
    \/ \E choices \in FanForms : FanSubmit(choices)
    \/ \E reply \in RecommendationReplies : FanAnalyze(reply)
    \/ FanRestart

\* What the page runs since the last selection did about the design
\* document: the calls of generate_design_document, the calls that returned
\* a document, and the document the last run showed.
NoDocLog == [calls |-> 0, made |-> 0, shown |-> None]

InitMarket ==
    /\ called = ""
    /\ served = None
    /\ returned = None
    /\ rendered = None

InitSession(key) ==
    /\ step = 1
    /\ trend_data = None
    /\ trend_keywords = None
    /\ game_ideas = None
    /\ selected_idea = None
    /\ design_doc = None
    /\ market_analysis = None
    /\ steam_data = None
    /\ steam_data_recent_years = None
    /\ steam_data_time = 0
    /\ steamspy_genre_data = None
    /\ steamspy_genre_time = 0
    /\ rawg_data = None
    /\ rawg_data_time = 0
    /\ recent_years = 5
    /\ use_google_trends = FALSE
    /\ region_choice = RegionLabels[1]
    /\ rawg_key = key
    /\ now = 0
    /\ last_run = None
    /\ last_report = None
    /\ doc_log = NoDocLog


\* StepAfterIdeas with "if ideas:" in place of the try's success path.
StepAfterIdeasTruthy(ideas) == IF ideas = EXC \/ ~Truthy(ideas) THEN step ELSE 2

\* try: ideas = generate_game_ideas(...); game_ideas = ideas; step = 2
\* except Exception: st.error(...)
StepAfterIdeas(ideas) == IF ideas = EXC THEN step ELSE 2

\* keywords = SEED_KEYWORDS.get(region_code, SEED_KEYWORDS[""])
SeedFallback(code) == SEED_KEYWORDS(code)

(***************************************************************************)
(* Step 3 of a page run: with an idea selected and no design document yet, *)
(* the report is rebuilt from the session's cached payloads and the AI is  *)
(* asked for the document.  Every page run (a rerun after a widget or      *)
(* button event) passes here.                                              *)
(***************************************************************************)
\* Step3Pending without the test of design_doc.
Step3PendingAlways(stp, sel, doc) == stp >= 3 /\ Truthy(sel)

Step3Pending(stp, sel, doc) == stp >= 3 /\ Truthy(sel) /\ doc = None

Step3Report(years) ==
    ReportOf("step3",
             IF Truthy(steam_data) /\ ~IsStr(steam_data) THEN steam_data ELSE None,
             IF Truthy(rawg_data) /\ ~IsStr(rawg_data) THEN rawg_data ELSE None,
             IF Truthy(steamspy_genre_data) /\ IsDict(steamspy_genre_data)
                 THEN steamspy_genre_data.genres ELSE None,
             IF Truthy(steamspy_genre_data) /\ IsDict(steamspy_genre_data)
                 THEN steamspy_genre_data.tags ELSE None,
             years)

\* if st.session_state["design_doc"]: the document is rendered
Step3Shown(stp, sel, doc) == IF stp >= 3 /\ Truthy(sel) /\ Truthy(doc) THEN doc ELSE None

PageRun(stp, sel, doc, years, out, log) ==
    IF Step3Pending(stp, sel, doc)
    THEN /\ last_report' = Step3Report(years)
         /\ design_doc' = LET d == generate_design_document(sel, out)
                          IN  IF d = EXC THEN doc ELSE d
         /\ doc_log' = [calls |-> log.calls + 1,
                        made |-> IF Truthy(design_doc') THEN log.made + 1 ELSE log.made,
                        shown |-> Step3Shown(stp, sel, design_doc')]
    ELSE /\ last_report' = None
         /\ design_doc' = doc
         /\ doc_log' = [log EXCEPT !.shown = Step3Shown(stp, sel, doc)]

(***************************************************************************)
(* The Step-1 button: trends, Steam Top-100, SteamSpy genres and tags,     *)
(* RAWG, the report, the AI market analysis, the AI ideas.                 *)
(***************************************************************************)
Step1Run(tr, so, go, to, ro, mo, io) ==
    /\ UNCHANGED vars_but_session
    /\ step = 1
    /\ LET seed == SEED_KEYWORDS(region_code)
           trends_failed == use_google_trends /\ IsStr(tr)
           extracted == IF use_google_trends /\ ~IsStr(tr)
                        THEN extract_trend_keywords(tr) ELSE {}
           keyword_sets == IF trends_failed THEN {SeedFallback(region_code)}
                           ELSE IF extracted # {} THEN CappedUnion(extracted, seed)
                           ELSE {seed}
           steam_valid == SteamCacheValid
           steam_local == IF steam_valid THEN steam_data
                          ELSE Step1FetchSteam(recent_years, so)
           genre_valid == GenreCacheValid
           genres_local == IF genre_valid THEN steamspy_genre_data.genres
                           ELSE Step1FetchGenres(go)
           tags_local == IF genre_valid THEN steamspy_genre_data.tags
                         ELSE Step1FetchTags(to)
           rawg_valid == RawgCacheValid
           rawg_fetch == Step1FetchRawg(recent_years, ro)
           rawg_local == IF rawg_valid THEN rawg_data
                         ELSE IF rawg_key /\ ~IsStr(rawg_fetch) THEN rawg_fetch
                         ELSE None
           report == ReportOf("step1",
                        IF ~IsStr(steam_local) THEN steam_local ELSE None,
                        IF Truthy(rawg_local) /\ ~IsStr(rawg_local)
                            THEN rawg_local ELSE None,
                        IF ~IsStr(genres_local) THEN genres_local ELSE None,
                        IF ~IsStr(tags_local) THEN tags_local ELSE None,
                        recent_years)
           analysis == LET a == generate_market_analysis(mo)
                       IN  IF a = EXC THEN None ELSE a
           ideas == generate_game_ideas(analysis, io)
       IN  /\ \E keywords \in keyword_sets :
                /\ trend_keywords' = [kind |-> "list", items |-> keywords]
                /\ last_run' = [kind |-> "step1",
                                trends_failed |-> trends_failed,
                                steam_from |-> IF steam_valid THEN "cache" ELSE "fetch",
                                genre_from |-> IF genre_valid THEN "cache" ELSE "fetch",
                                ideas_ok |-> ideas # EXC,
                                idea_response |-> io]
           /\ trend_data' = IF use_google_trends /\ ~IsStr(tr) THEN tr ELSE None
           /\ IF steam_valid
              THEN UNCHANGED <<steam_data, steam_data_recent_years, steam_data_time>>
              ELSE IF IsStr(steam_local)
                   THEN /\ steam_data' = None
                        /\ UNCHANGED <<steam_data_recent_years, steam_data_time>>
                   ELSE /\ steam_data' = steam_local
                        /\ steam_data_recent_years' = PyInt(recent_years)
                        /\ steam_data_time' = now
           /\ IF genre_valid
              THEN UNCHANGED <<steamspy_genre_data, steamspy_genre_time>>
              ELSE /\ steamspy_genre_data' =
                         [kind |-> "dict", genres |-> genres_local, tags |-> tags_local]
                   /\ steamspy_genre_time' = now
           /\ IF ~rawg_valid /\ rawg_key /\ ~IsStr(rawg_fetch)
              THEN /\ rawg_data' = rawg_fetch
                   /\ rawg_data_time' = now
              ELSE UNCHANGED <<rawg_data, rawg_data_time>>
           /\ last_report' = report
           /\ market_analysis' = analysis
           /\ game_ideas' = IF ideas = EXC THEN game_ideas ELSE ideas
           /\ step' = StepAfterIdeas(ideas)
    /\ UNCHANGED <<selected_idea, design_doc, vars_widgets, now, doc_log>>

\* Step 2 shows its buttons when game_ideas is truthy and the loop over it
\* finds ideas: iterating a dict yields its keys, and idea["title"] on a
\* key raises before any button is drawn.
Step2Shown == Truthy(game_ideas) /\ game_ideas.kind = "list"

\* Step 2: the "select" button of idea i, and the page run it triggers.
SelectIdea(i, out) ==
    /\ UNCHANGED vars_but_session
    /\ step = 2
    /\ Step2Shown
    /\ i \in 1..Len(game_ideas.items)
    /\ selected_idea' = [kind |-> "idea", title |-> game_ideas.items[i]]
    /\ step' = 3
    /\ PageRun(step', selected_idea', design_doc, recent_years, out, NoDocLog)
    /\ last_run' = None
    /\ UNCHANGED <<trend_data, trend_keywords, game_ideas, market_analysis,
                   vars_cache, vars_widgets, now>>

\* Step 2: the "regenerate ideas" button.
Regenerate ==
    /\ UNCHANGED vars_but_session
    /\ step = 2
    /\ Step2Shown
    /\ game_ideas' = None
    /\ selected_idea' = None
    /\ design_doc' = None
    /\ market_analysis' = None
    /\ step' = 1
    /\ last_run' = None
    /\ last_report' = None
    /\ doc_log' = NoDocLog
    /\ UNCHANGED <<trend_data, trend_keywords, vars_cache, vars_widgets, now>>

\* Reset that also drops the cached Steam payload.
ResetDropsSteam ==
    /\ UNCHANGED vars_but_session
    /\ step' = 1
    /\ trend_data' = None
    /\ trend_keywords' = None
    /\ game_ideas' = None
    /\ selected_idea' = None
    /\ design_doc' = None
    /\ market_analysis' = None
    /\ steam_data' = None
    /\ last_run' = None
    /\ last_report' = None
    /\ doc_log' = NoDocLog
    /\ UNCHANGED <<steam_data_recent_years, steam_data_time, steamspy_genre_data,
                   steamspy_genre_time, rawg_data, rawg_data_time, vars_widgets, now>>

\* The sidebar's reset button: every SESSION_KEYS entry to None, step to 1.
Reset ==
    /\ UNCHANGED vars_but_session
    /\ step' = 1
    /\ trend_data' = None
    /\ trend_keywords' = None
    /\ game_ideas' = None
    /\ selected_idea' = None
    /\ design_doc' = None
    /\ market_analysis' = None
    /\ last_run' = None
    /\ last_report' = None
    /\ doc_log' = NoDocLog
    /\ UNCHANGED <<vars_cache, vars_widgets, now>>

\* The slider: a new value, and the page run that follows.
SetRecentYears(y, out) ==
    /\ UNCHANGED vars_but_session
    /\ y # recent_years
    /\ recent_years' = y
    /\ PageRun(step, selected_idea, design_doc, y, out, doc_log)
    /\ UNCHANGED <<step, trend_data, trend_keywords, game_ideas, selected_idea,
                   market_analysis, vars_cache, use_google_trends, region_choice,
                   rawg_key, now>>
    /\ last_run' = None

\* The Google Trends check box; the region select box exists only while it
\* is checked and starts at the first region.
ToggleTrends(out) ==
    /\ UNCHANGED vars_but_session
    /\ use_google_trends' = ~use_google_trends
    /\ region_choice' = RegionLabels[1]
    /\ PageRun(step, selected_idea, design_doc, recent_years, out, doc_log)
    /\ UNCHANGED <<step, trend_data, trend_keywords, game_ideas, selected_idea,
                   market_analysis, vars_cache, recent_years, rawg_key, now>>
    /\ last_run' = None

SelectRegion(r, out) ==
    /\ UNCHANGED vars_but_session
    /\ use_google_trends
    /\ r # region_choice
    /\ region_choice' = r
    /\ PageRun(step, selected_idea, design_doc, recent_years, out, doc_log)
    /\ UNCHANGED <<step, trend_data, trend_keywords, game_ideas, selected_idea,
                   market_analysis, vars_cache, recent_years, use_google_trends,
                   rawg_key, now>>
    /\ last_run' = None

\* Time passes between the user's actions.
Tick ==
    /\ UNCHANGED vars_but_session
    /\ now + TimeStep <= MaxTime
    /\ now' = now + TimeStep
    /\ last_run' = None
    /\ last_report' = None
    /\ UNCHANGED <<vars_keys, vars_cache, vars_widgets, doc_log>>

\* The outcomes a page run may see of its design-document call, if it makes one.
PageOutcomes ==
    IF Step3Pending(step, selected_idea, design_doc)
    THEN IF doc_log.calls < MaxDocCalls THEN DocOutcomes ELSE {}
    ELSE {"doc"}

\* Step 3: a rerun of the page with no sidebar value changed (a download
\* button, st.rerun() after the document was stored).
Rerun(out) ==
    /\ UNCHANGED vars_but_session
    /\ step = 3
    /\ PageRun(step, selected_idea, design_doc, recent_years, out, doc_log)
    /\ last_run' = None
    /\ UNCHANGED <<step, trend_data, trend_keywords, game_ideas, selected_idea,
                   market_analysis, vars_cache, vars_widgets, now>>

(***************************************************************************)
(* Spec: the session over time.  The user moves the slider, runs Step 1,   *)
(* selects an idea and resets while the clock advances; every fetch may    *)
(* fail.  Google Trends stays unchecked.                                   *)
(***************************************************************************)
NextSession ==
    \/ \E so \in (IF SteamCacheValid THEN {"ok"} ELSE FetchOutcomes),
          go, to \in (IF GenreCacheValid THEN {"ok"} ELSE FetchOutcomes),
          ro \in (IF RawgCacheValid \/ ~rawg_key THEN {"ok"} ELSE FetchOutcomes),
          io \in {"ideas", "exc"} :
            Step1Run(None, so, go, to, ro, "dict", io)
    \/ \E i \in 1..2, out \in DocOutcomes : SelectIdea(i, out)
    \/ Regenerate
    \/ Reset
    \/ \E y \in YearChoices, out \in PageOutcomes : SetRecentYears(y, out)
    \/ \E out \in PageOutcomes : Rerun(out)
    \/ Tick

\* The RAWG key is present in secrets.toml or not.
Init ==
    /\ InitParse /\ InitMarket /\ InitStarted /\ InitFan /\ InitText /\ InitRun
        /\ InitShared /\ InitOwners
    /\ \E key \in BOOLEAN : InitSession(key)

Spec == Init /\ [][NextSession]_vars

(***************************************************************************)
(* SpecFlow: the session's steps at one instant.  Every outcome of the     *)
(* trends fetch, the provider fetches and the AI calls is explored, with   *)
(* the trends check box and the region select box; slider and clock rest.  *)
(***************************************************************************)
NextFlow ==
    \/ \E tr \in (IF use_google_trends THEN TrendOutcomes ELSE {None}),
          so \in (IF SteamCacheValid THEN {"ok"} ELSE FetchOutcomes),
          go, to \in (IF GenreCacheValid THEN {"ok"} ELSE FetchOutcomes),
          ro \in (IF RawgCacheValid \/ ~rawg_key THEN {"ok"} ELSE FetchOutcomes),
          mo \in AnalysisOutcomes, io \in IdeaOutcomes :
            Step1Run(tr, so, go, to, ro, mo, io)
    \/ \E i \in 1..2, out \in DocOutcomes : SelectIdea(i, out)
    \/ Regenerate
    \/ Reset
    \/ \E out \in PageOutcomes : ToggleTrends(out)
    \/ \E r \in RegionChoices, out \in PageOutcomes : SelectRegion(r, out)
    \/ \E out \in PageOutcomes : Rerun(out)

SpecFlow == Init /\ [][NextFlow]_vars

(***************************************************************************)
(* The fetch layer on data.  What a provider answers to one request: a     *)
(* timeout (requests.get raises), a non-2xx status (raise_for_status       *)
(* raises), a body that is no JSON (resp.json() raises), or a JSON body.   *)
(***************************************************************************)
Timeout == [kind |-> "timeout"]

HttpError == [kind |-> "http_error"]

NotJson == [kind |-> "not_json"]

Json(body) == [kind |-> "json", body |-> body]

RequestFailures == {Timeout, HttpError, NotJson}

Failed(resp) == resp.kind # "json"

Raised(v) == v.kind = "exception"

\* requests.get(..., timeout=...); resp.raise_for_status(); resp.json()
get_json(resp) == IF resp.kind = "json" THEN resp.body ELSE EXC

\* try: v  except Exception: handler
TryExcept(v, handler) == IF Raised(v) THEN handler ELSE v

\* A Python str with the characters it is made of.
PyStr(chars) == [kind |-> "str", chars |-> chars]

\* A dict by its entries in insertion order.
PyDict(items) == [kind |-> "dict", items |-> items]

\* d.get(k, default) on a record
DictGet(d, k, default) == IF k \in DOMAIN d THEN d[k] ELSE default

\* _parse_owners on a value of a payload: a value that is no str has no
\* .replace, and AttributeError is not among the exceptions it catches.
parse_owners_of(v) == IF IsStr(v) THEN PyInt(_parse_owners(v.chars)) ELSE EXC

\* price = info.get("price", 0); a str price goes through int(), 0 on ValueError.
price_of(info) ==
    LET price == DictGet(info, "price", PyInt(0))
    IN  IF IsStr(price)
        THEN LET n == IntOf(price.chars) IN IF n.err THEN 0 ELSE n.val
        ELSE price.v

\* InsertSorted with an entry put before the entries of equal key.
InsertBeforeEqual(sorted, x) ==
    LET n == Cardinality({k \in 1..Len(sorted) : sorted[k].key > x.key})
    IN  SubSeq(sorted, 1, n) \o <<x>> \o SubSeq(sorted, n + 1, Len(sorted))

\* One step of a stable descending sort: x goes behind every entry whose
\* key is not smaller.
InsertSorted(sorted, x) ==
    LET n == Cardinality({k \in 1..Len(sorted) : sorted[k].key >= x.key})
    IN  SubSeq(sorted, 1, n) \o <<x>> \o SubSeq(sorted, n + 1, Len(sorted))

\* sorted(entries, key=..., reverse=True) on [key, item] entries: Python's
\* sort is stable, also with reverse=True.
RECURSIVE sorted_reverse(_)
sorted_reverse(s) ==
    IF s = <<>> THEN <<>>
    ELSE InsertSorted(sorted_reverse(SubSeq(s, 1, Len(s) - 1)), s[Len(s)])

\* collections.Counter: its [key |-> count, item |-> element] entries in
\* the order the elements were first counted.
CounterAdd(counter, e) ==
    IF \E k \in 1..Len(counter) : counter[k].item = e
    THEN [k \in 1..Len(counter) |->
             IF counter[k].item = e
             THEN [counter[k] EXCEPT !.key = @ + 1] ELSE counter[k]]
    ELSE Append(counter, [key |-> 1, item |-> e])

RECURSIVE CounterAddAll(_, _)
CounterAddAll(counter, es) ==
    IF es = <<>> THEN counter
    ELSE CounterAddAll(CounterAdd(counter, Head(es)), Tail(es))

\* Counter.most_common(n): by count, equal counts in first-counted order.
most_common(counter, n) == Take(sorted_reverse(counter), n)

(***************************************************************************)
(* fetch_steamspy_genres and fetch_steamspy_tags: one request per genre    *)
(* (tag), each in its own try; a listing is the dict appid -> info.        *)
(***************************************************************************)
STEAMSPY_GENRE_LIST ==
    <<"Action", "Adventure", "RPG", "Strategy", "Simulation", "Indie",
      "Casual", "Racing">>

STEAMSPY_TAG_LIST ==
    <<"Roguelike", "Open World", "Survival", "Multiplayer", "Co-op", "Puzzle",
      "Horror", "Platformer", "Deck Building", "Tower Defense">>

\* The genres and tags the loops run over are the first of the lists.
NumGenres == 2

NumTags == 1

GenreList == SubSeq(STEAMSPY_GENRE_LIST, 1, NumGenres)

TagList == SubSeq(STEAMSPY_TAG_LIST, 1, NumTags)

\* list(games.items())[:50] and [:30]
GenreSlice == 50

TagSlice == 30

CO_TAG_COUNT == 10

\* The try body of one genre.
genre_stat(games) ==
    IF Raised(games) \/ ~IsDict(games) THEN EXC
    ELSE LET first == Take(games.items, GenreSlice)
             n == Len(first)
             owners == [k \in 1..n |->
                          parse_owners_of(DictGet(first[k], "owners", PyStr(<<"0">>)))]
             prices == SelectSeq([k \in 1..n |-> price_of(first[k])],
                                 LAMBDA p : p > 0)
             playtimes == SelectSeq([k \in 1..n |->
                                       DictGet(first[k], "average_forever", 0)],
                                    LAMBDA m : m > 0)
         IN  IF \E k \in 1..n : Raised(owners[k]) THEN EXC
             ELSE [kind |-> "dict",
                   game_count |-> Len(games.items),
                   total_owners |-> SumSeq([k \in 1..n |-> owners[k].v]),
                   avg_price |-> IF prices # <<>>
                                 THEN SumSeq(prices) \div Len(prices) ELSE 0,
                   avg_playtime |-> IF playtimes # <<>>
                                    THEN SumSeq(playtimes) \div Len(playtimes)
                                    ELSE 0]

RECURSIVE genre_loop(_, _, _)
genre_loop(i, resps, genre_data) ==
    IF i > Len(GenreList) THEN genre_data
    ELSE LET stat == TryExcept(genre_stat(get_json(resps[i])), None)
         IN  genre_loop(i + 1, resps,
                        IF stat = None THEN genre_data
                        ELSE Append(genre_data,
                                    [genre |-> GenreList[i], info |-> stat]))

fetch_steamspy_genres(resps) ==
    LET genre_data == genre_loop(1, resps, <<>>)
    IN  IF genre_data = <<>> THEN FailStr("SteamSpy genres") ELSE PyDict(genre_data)

\* for t in game_tags: if t != tag: all_tags[t] += 1, over the listing.
RECURSIVE co_tag_counter(_, _, _)
co_tag_counter(tag, infos, all_tags) ==
    IF infos = <<>> THEN all_tags
    ELSE LET game_tags == DictGet(Head(infos), "tags", PyDict(<<>>))
             others == IF IsDict(game_tags)
                       THEN SelectSeq(game_tags.items, LAMBDA t : t # tag)
                       ELSE <<>>
         IN  co_tag_counter(tag, Tail(infos), CounterAddAll(all_tags, others))

\* The try body of one tag.
tag_stat(tag, games) ==
    IF Raised(games) \/ ~IsDict(games) THEN EXC
    ELSE LET first == Take(games.items, TagSlice)
             n == Len(first)
             owners == [k \in 1..n |->
                          parse_owners_of(DictGet(first[k], "owners", PyStr(<<"0">>)))]
             prices == SelectSeq([k \in 1..n |-> price_of(first[k])],
                                 LAMBDA p : p > 0)
         IN  IF \E k \in 1..n : Raised(owners[k]) THEN EXC
             ELSE [kind |-> "dict",
                   game_count |-> Len(games.items),
                   total_owners |-> SumSeq([k \in 1..n |-> owners[k].v]),
                   avg_price |-> IF prices # <<>>
                                 THEN SumSeq(prices) \div Len(prices) ELSE 0,
                   co_tags |-> most_common(co_tag_counter(tag, first, <<>>),
                                           CO_TAG_COUNT)]

RECURSIVE tag_loop(_, _, _)
tag_loop(i, resps, tag_data) ==
    IF i > Len(TagList) THEN tag_data
    ELSE LET stat == TryExcept(tag_stat(TagList[i], get_json(resps[i])), None)
         IN  tag_loop(i + 1, resps,
                      IF stat = None THEN tag_data
                      ELSE Append(tag_data, [tag |-> TagList[i], info |-> stat]))

fetch_steamspy_tags(resps) ==
    LET tag_data == tag_loop(1, resps, <<>>)
    IN  IF tag_data = <<>> THEN FailStr("SteamSpy tags") ELSE PyDict(tag_data)

(***************************************************************************)
(* fetch_steam_top100.  An app of the Top-100 listing comes with its       *)
(* basic_info, the Steam Store answer to the release-date check and the    *)
(* SteamSpy answer to the appdetails request.                              *)
(***************************************************************************)
STEAMSPY_TOP_DETAIL_COUNT == 15

TOP_GENRE_COUNT == 10

TOP_TAG_COUNT == 15

DETAIL_TAG_COUNT == 10

\* datetime.now().year
ThisYear == 2026

\* _get_release_year: the year of the release date, None when the request
\* fails, the app is unknown or coming soon, or the date holds no year.
_get_release_year(store) == TryExcept(get_json(store), None)

\* The try body of one detail request: the counters are updated before the
\* owners are parsed.  acc holds games, genre_counter and tag_counter.
detail_step(acc, app) ==
    LET detail == get_json(app.detail)
    IN  IF Raised(detail) \/ ~IsDict(detail) THEN acc
        ELSE LET avg_2weeks == DictGet(detail, "average_2weeks", 0)
                 genre_list == SelectSeq(DictGet(detail, "genre", <<>>),
                                         LAMBDA g : g # "")
                 tags == DictGet(detail, "tags", PyDict(<<>>))
                 tag_names == IF IsDict(tags)
                              THEN Take(tags.items, DETAIL_TAG_COUNT) ELSE <<>>
                 price == price_of(detail)
                 counted == [acc EXCEPT
                               !.genre_counter = CounterAddAll(@, genre_list),
                               !.tag_counter = CounterAddAll(@, tag_names)]
                 owners == parse_owners_of(
                               DictGet(detail, "owners",
                                   DictGet(app.basic_info, "owners", PyStr(<<"0">>))))
                 name == DictGet(detail, "name",
                             DictGet(app.basic_info, "name", "Unknown"))
             IN  IF avg_2weeks = 0 THEN acc
                 ELSE IF Raised(owners) THEN counted
                 ELSE [counted EXCEPT !.games = Append(@,
                          [name |-> name,
                           owners |-> owners.v,
                           average_2weeks |-> avg_2weeks,
                           release_year |-> app.release_year,
                           genre |-> genre_list,
                           tags |-> tag_names,
                           price |-> price])]

\* for appid, basic_info, release_year in recent_games: ... with the break
\* at STEAMSPY_TOP_DETAIL_COUNT collected games.
\* The detail loop without its break.
detail_loop_ends_at_last(recent_games, acc) == recent_games = <<>>

\* The loop is exhausted, or: if len(games) >= STEAMSPY_TOP_DETAIL_COUNT: break
detail_loop_ends(recent_games, acc) ==
    recent_games = <<>> \/ Len(acc.games) >= STEAMSPY_TOP_DETAIL_COUNT

RECURSIVE detail_loop(_, _)
detail_loop(recent_games, acc) ==
    IF detail_loop_ends(recent_games, acc) THEN acc
    ELSE detail_loop(Tail(recent_games), detail_step(acc, Head(recent_games)))

\* The body of the outer try.  order is the order in which the release-date
\* checks complete (as_completed).
steam_top100_body(years, top100_resp, order) ==
    LET top100 == get_json(top100_resp)
    IN  IF Raised(top100) THEN EXC
        ELSE IF ~IsDict(top100) THEN EXC
        ELSE LET cutoff_year == ThisYear - years
                 apps == top100.items
                 checked == [k \in 1..Len(apps) |->
                               [basic_info |-> apps[order[k]].basic_info,
                                detail |-> apps[order[k]].detail,
                                release |-> _get_release_year(apps[order[k]].store)]]
                 kept == SelectSeq(checked,
                             LAMBDA a : a.release # None /\ a.release.v >= cutoff_year)
                 recent_games == sorted_reverse(
                     [k \in 1..Len(kept) |->
                         [key |-> DictGet(kept[k].basic_info, "average_2weeks", 0),
                          item |-> [basic_info |-> kept[k].basic_info,
                                    detail |-> kept[k].detail,
                                    release_year |-> kept[k].release.v]]])
                 acc == detail_loop(
                            [k \in 1..Len(recent_games) |-> recent_games[k].item],
                            [games |-> <<>>, genre_counter |-> <<>>,
                             tag_counter |-> <<>>])
             IN  [kind |-> "dict",
                  games |-> acc.games,
                  top_genres |-> most_common(acc.genre_counter, TOP_GENRE_COUNT),
                  top_tags |-> most_common(acc.tag_counter, TOP_TAG_COUNT)]

\* fetch_steam_top100 without its outer try.
fetch_steam_top100_no_try(years, top100_resp, order) ==
    steam_top100_body(years, top100_resp, order)

fetch_steam_top100(years, top100_resp, order) ==
    TryExcept(steam_top100_body(years, top100_resp, order), FailStr("Steam"))

(***************************************************************************)
(* fetch_rawg_data: three game listings (by added, rating, release date),  *)
(* each in its own try, and the genre list in a fourth.                    *)
(***************************************************************************)
RAWG_ORDERINGS == <<"popular_games", "top_rated", "recent_releases">>

\* "pc", "windows", ... in p.lower(), on the platform names served.
platform_class(p) ==
    CASE p \in {"PC", "Linux", "macOS"} -> "PC"
      [] p \in {"PlayStation 5", "Xbox One", "Nintendo Switch"} -> "Console"
      [] p \in {"iOS", "Android"} -> "Mobile"
      [] OTHER -> ""

\* result["metacritic_by_genre"].setdefault(g, []).append(metacritic) over genres
RECURSIVE add_scores(_, _, _)
add_scores(by_genre, genres, score) ==
    IF genres = <<>> THEN by_genre
    ELSE LET g == Head(genres)
             next == IF \E k \in 1..Len(by_genre) : by_genre[k].genre = g
                     THEN [k \in 1..Len(by_genre) |->
                              IF by_genre[k].genre = g
                              THEN [by_genre[k] EXCEPT !.scores = Append(@, score)]
                              ELSE by_genre[k]]
                     ELSE Append(by_genre, [genre |-> g, scores |-> <<score>>])
         IN  add_scores(next, Tail(genres), score)

\* The games of one listing.  [g["name"] for g in game.get("genres", [])]
\* raises KeyError on a genre entry without "name", which ends the listing's
\* try; the games appended before stay in the result.  Platforms are served
\* by their names.
RECURSIVE rawg_games(_, _, _)
rawg_games(result, key, games) ==
    IF games = <<>> THEN result
    ELSE LET game == Head(games)
             genre_dicts == DictGet(game, "genres", <<>>)
         IN  IF \E k \in 1..Len(genre_dicts) : "name" \notin DOMAIN genre_dicts[k]
             THEN result
             ELSE LET genres == [k \in 1..Len(genre_dicts) |-> genre_dicts[k].name]
                      platforms == DictGet(game, "platforms", <<>>)
                      metacritic == DictGet(game, "metacritic", None)
                      entry == [name |-> DictGet(game, "name", ""),
                                metacritic |-> metacritic,
                                genres |-> genres,
                                platforms |-> platforms]
                      classes == SelectSeq([k \in 1..Len(platforms) |->
                                               platform_class(platforms[k])],
                                           LAMBDA c : c # "")
                      scored == metacritic # None /\ metacritic.v > 0
                  IN  rawg_games(
                          [result EXCEPT
                              ![key] = Append(@, entry),
                              !.platform_stats = CounterAddAll(@, classes),
                              !.metacritic_by_genre =
                                  IF scored THEN add_scores(@, genres, metacritic.v)
                                  ELSE @],
                          key, Tail(games))

RECURSIVE rawg_listings(_, _, _)
rawg_listings(i, resps, result) ==
    IF i > Len(RAWG_ORDERINGS) THEN result
    ELSE LET data == get_json(resps[i])
         IN  rawg_listings(i + 1, resps,
                 IF Raised(data) THEN result
                 ELSE rawg_games(result, RAWG_ORDERINGS[i],
                                 DictGet(data, "results", <<>>)))

rawg_genres(result, resp) ==
    LET data == get_json(resp)
    IN  IF Raised(data) THEN result
        ELSE [result EXCEPT !.genres = @ \o DictGet(data, "results", <<>>)]

fetch_rawg_data(has_key, years, resps) ==
    IF ~has_key THEN FailStr("RAWG key")
    ELSE LET empty == [kind |-> "dict",
                       popular_games |-> <<>>, top_rated |-> <<>>,
                       recent_releases |-> <<>>, genres |-> <<>>,
                       platform_stats |-> <<>>, metacritic_by_genre |-> <<>>]
             result == rawg_genres(rawg_listings(1, resps.listings, empty),
                                   resps.genres)
         IN  IF result.popular_games = <<>> /\ result.top_rated = <<>>
             THEN FailStr("RAWG")
             ELSE result

\* fetch_trends: every pytrends call is inside the try.
fetch_trends(code, resp) ==
    TryExcept(IF Failed(resp) THEN EXC ELSE TrendPayload(resp.body),
              FailStr("trends"))

(***************************************************************************)
(* The formatters.  A text is modelled by the data its lines show.         *)
(***************************************************************************)
SUMMARY_GAME_COUNT == 10

RAWG_GENRE_LINES == 10

SATURATION_HIGH == 3000

SATURATION_MEDIUM == 1000

BLUE_OCEAN_SCORE == 75

BLUE_OCEAN_GAMES == 2000

\* The keys of price_buckets; "free" stands for the dict's first key.
BucketNames == <<"free", "~$10", "$10~$30", "$30+">>

format_steam_summary(steam, years) ==
    IF IsStr(steam) \/ steam = None
    THEN [kind |-> "text", empty |-> TRUE]
    ELSE IF ~IsDict(steam) THEN EXC
    ELSE LET shown == Take(steam.games, SUMMARY_GAME_COUNT)
         IN  [kind |-> "text", empty |-> FALSE, recent_years |-> years,
              games |-> [k \in 1..Len(shown) |-> shown[k].name],
              top_genres |-> steam.top_genres,
              top_tags |-> steam.top_tags]

\* The if/elif chain of the report's price section.
price_bucket(price_cents) ==
    IF price_cents = 0 THEN "free"
    ELSE IF price_cents <= 1000 THEN "~$10"
    ELSE IF price_cents <= 3000 THEN "$10~$30"
    ELSE "$30+"

\* tab_price_bucket with 3000 excluded from "$10~$30".
tab_price_bucket_below(price_cents) ==
    IF price_cents = 0 THEN "free"
    ELSE IF price_cents <= 1000 THEN "~$10"
    ELSE IF price_cents < 3000 THEN "$10~$30"
    ELSE "$30+"

\* The if/elif chain of the Step-2 price tab.
tab_price_bucket(price_cents) ==
    IF price_cents = 0 THEN "free"
    ELSE IF price_cents <= 1000 THEN "~$10"
    ELSE IF price_cents <= 3000 THEN "$10~$30"
    ELSE "$30+"

\* price_buckets after the loop over the games: per bucket, the owners of
\* the games appended to it, in the order of the games.
buckets_by(games, tiers) ==
    [b \in {BucketNames[k] : k \in 1..Len(BucketNames)} |->
        LET members == SelectSeq([k \in 1..Len(games) |-> [game |-> games[k], tier |-> tiers[k]]],
                                 LAMBDA m : m.tier = b)
        IN  [k \in 1..Len(members) |-> DictGet(members[k].game, "owners", 0)]]

\* The bucket of each game under the report's chain and under the tab's.
report_tiers(games) == [k \in 1..Len(games) |-> price_bucket(DictGet(games[k], "price", 0))]

tab_tiers(games) == [k \in 1..Len(games) |-> tab_price_bucket(DictGet(games[k], "price", 0))]

\* The price section of the Step-2 tab.
price_tab(steam) ==
    IF Truthy(steam) /\ ~IsStr(steam) /\ steam.games # <<>>
    THEN buckets_by(steam.games, tab_tiers(steam.games))
    ELSE None

saturation(game_count) ==
    IF game_count > SATURATION_HIGH THEN "high"
    ELSE IF game_count > SATURATION_MEDIUM THEN "medium"
    ELSE "low"

\* steamspy_genres.get(genre, {}).get("game_count", 0)
genre_game_count(steamspy_genres, genre) ==
    LET hits == SelectSeq(steamspy_genres.items, LAMBDA e : e.genre = genre)
    IN  IF hits = <<>> THEN 0 ELSE hits[1].info.game_count

\* What the lines of format_comprehensive_analysis show, by sections.  The
\* tag-pair list, the Metacritic list, the year list and the missing tag
\* pairs are kept as the data they are computed from.
report_data(steam, rawg, steamspy_genres, steamspy_tags, years) ==
    LET has_games == IsDict(steam) /\ steam.games # <<>>
        by_owners == IF IsDict(steamspy_genres)
                     THEN sorted_reverse(
                              [k \in 1..Len(steamspy_genres.items) |->
                                  [key |-> steamspy_genres.items[k].info.total_owners,
                                   item |-> steamspy_genres.items[k]]])
                     ELSE <<>>
        rawg_sorted == IF IsDict(rawg) /\ rawg.genres # <<>>
                       THEN Take(sorted_reverse(
                                [k \in 1..Len(rawg.genres) |->
                                    [key |-> rawg.genres[k].games_count,
                                     item |-> rawg.genres[k]]]),
                                RAWG_GENRE_LINES)
                       ELSE <<>>
        buckets == IF has_games THEN buckets_by(steam.games, report_tiers(steam.games))
                   ELSE None
        scores == IF IsDict(rawg) THEN rawg.metacritic_by_genre ELSE <<>>
    IN  [kind |-> "report",
         recent_years |-> years,
         market_size |->
             [k \in 1..Len(by_owners) |->
                 [genre |-> by_owners[k].item.genre,
                  game_count |-> by_owners[k].item.info.game_count,
                  total_owners |-> by_owners[k].item.info.total_owners,
                  saturation |-> saturation(by_owners[k].item.info.game_count)]],
         rawg_genres |-> [k \in 1..Len(rawg_sorted) |-> rawg_sorted[k].item],
         hit_tags |-> IF has_games
                      THEN [k \in 1..Len(steam.games) |-> steam.games[k].tags]
                      ELSE <<>>,
         co_tags |-> IF IsDict(steamspy_tags)
                     THEN SelectSeq(steamspy_tags.items,
                                    LAMBDA e : e.info.co_tags # <<>>)
                     ELSE <<>>,
         metacritic |-> SelectSeq(scores, LAMBDA e : Len(e.scores) >= 2),
         price_buckets |-> buckets,
         price_lines |->
             IF has_games
             THEN SelectSeq(
                      [k \in 1..Len(BucketNames) |->
                          LET owners_list == buckets[BucketNames[k]]
                          IN  [bucket |-> BucketNames[k],
                               n |-> Len(owners_list),
                               avg |-> IF owners_list # <<>>
                                       THEN SumSeq(owners_list) \div Len(owners_list)
                                       ELSE 0]],
                      LAMBDA l : l.n > 0)
             ELSE <<>>,
         year_genres |-> IF has_games
                         THEN {steam.games[k].release_year :
                                  k \in 1..Len(steam.games)}
                         ELSE {},
         blue_ocean |->
             IF scores # <<>> /\ IsDict(steamspy_genres)
             THEN SelectSeq(scores,
                      LAMBDA e :
                          /\ SumSeq(e.scores) >= BLUE_OCEAN_SCORE * Len(e.scores)
                          /\ genre_game_count(steamspy_genres, e.genre)
                                 < BLUE_OCEAN_GAMES
                          /\ Len(e.scores) >= 2)
             ELSE <<>>,
         platforms |-> IF IsDict(rawg)
                       THEN sorted_reverse(rawg.platform_stats) ELSE <<>>,
         multi_platform |->
             IF IsDict(rawg) /\ rawg.popular_games # <<>>
             THEN [multi |-> Len(SelectSeq(rawg.popular_games,
                                           LAMBDA g : Len(g.platforms) > 1)),
                   total |-> Len(rawg.popular_games)]
             ELSE None]

\* ---- the lines of the report, in the order of the lines.append calls ----
Line(kind, text, data) == [kind |-> kind, text |-> text, data |-> data]

SectionHeaders ==
    <<"1. market size & saturation", "2. success patterns", "3. growth trends",
      "4. blue ocean detection", "5. platform analysis">>

\* One data line per entry of s.
Items(text, s) == [k \in 1..Len(s) |-> Line("item", text, s[k])]

\* if cond: lines.append(sub-header); lines.append(...) for each item
Sub(cond, text, items) == IF cond THEN <<Line("sub", text, 0)>> \o items ELSE <<>>

\* section_lines with the header appended only when the section has lines.
section_lines_if_any(n, body) ==
    IF body = <<>> THEN <<>> ELSE <<Line("header", SectionHeaders[n], n)>> \o body

\* lines.append(header of section n), then the lines of the section.
section_lines(n, body) == <<Line("header", SectionHeaders[n], n)>> \o body

\* The pairs of collected tags neither of which lists the other as co-tag.
missing_combos(steamspy_tags) ==
    LET tags == steamspy_tags.items
        co(i) == {tags[i].info.co_tags[k].item : k \in 1..Len(tags[i].info.co_tags)}
    IN  {<<i, j>> \in (1..Len(tags)) \X (1..Len(tags)) :
            i < j /\ tags[j].tag \notin co(i) /\ tags[i].tag \notin co(j)}

report_lines(steam, rawg, steamspy_genres, steamspy_tags, d) ==
    LET has_games == IsDict(steam) /\ steam.games # <<>>
        has_scores == IsDict(rawg) /\ rawg.metacritic_by_genre # <<>>
        blank == <<Line("blank", "", 0)>>
    IN  <<Line("title", "report", d.recent_years)>> \o blank
        \o section_lines(1,
               Items("genre", d.market_size)
               \o Sub(d.rawg_genres # <<>>, "RAWG genres", Items("genre", d.rawg_genres)))
        \o blank
        \o section_lines(2,
               Sub(has_games, "hit tag pairs", Items("tags", d.hit_tags))
               \o Sub(IsDict(steamspy_tags), "co-tags", Items("tag", d.co_tags))
               \o Sub(has_scores, "Metacritic", Items("genre", d.metacritic))
               \o Sub(has_games, "price tiers", Items("tier", d.price_lines)))
        \o blank
        \o section_lines(3,
               Sub(has_games /\ d.year_genres # {}, "years",
                   <<Line("item", "years", d.year_genres)>>))
        \o blank
        \o section_lines(4,
               Sub(has_scores /\ IsDict(steamspy_genres), "low saturation, high score",
                   Items("genre", d.blue_ocean))
               \o Sub(IsDict(steamspy_tags) /\ missing_combos(steamspy_tags) # {},
                      "rare tag pairs",
                      <<Line("item", "pairs", missing_combos(steamspy_tags))>>))
        \o blank
        \o section_lines(5,
               Items("platform", d.platforms)
               \o (IF d.multi_platform # None
                   THEN <<Line("item", "multi-platform", d.multi_platform)>> ELSE <<>>))

format_comprehensive_analysis(steam, rawg, steamspy_genres, steamspy_tags, years) ==
    LET d == report_data(steam, rawg, steamspy_genres, steamspy_tags, years)
    IN  [lines |-> report_lines(steam, rawg, steamspy_genres, steamspy_tags, d)] @@ d

(***************************************************************************)
(* What the providers serve.                                               *)
(***************************************************************************)
\* The longest of the varied listings, the games a long listing may have
\* beyond the slice that is read, the apps of a Top-100 listing.
MaxListing == 2

MaxExtra == 1

MaxApps == 3

Own(lo, hi) == PyStr(lo \o <<" ", ".", ".", " ">> \o hi)

\* Listing entries: owners 50, 100 and 300, an entry with an unparsable
\* owners string and nothing else, an entry whose owners are a number.
SampleGames ==
    <<[owners |-> Own(<<"0">>, <<"1", "0", "0">>), price |-> PyInt(0),
       average_forever |-> 0],
      [owners |-> Own(<<"9", "0">>, <<"1", "1", "0">>), price |-> PyInt(999),
       average_forever |-> 60, tags |-> PyDict(<<"Roguelike", "Co-op">>)],
      [owners |-> Own(<<"2", "0", "0">>, <<"4", "0", "0">>),
       price |-> PyStr(<<"1", "9", "9", "9">>), average_forever |-> 30,
       tags |-> PyDict(<<"Co-op">>)],
      [owners |-> PyStr(<<"x">>)],
      [owners |-> PyInt(5), price |-> PyInt(999), average_forever |-> 60]>>

\* The contiguous parts of s of at most n entries.
Slices(s, n) ==
    {SubSeq(s, p[1], p[1] + p[2] - 1) :
        p \in {q \in (1..Len(s)) \X (0..n) : q[1] + q[2] - 1 <= Len(s)}}

\* A listing of n entries, each with owners "1 .. 3".
LongListing(n) ==
    [k \in 1..n |-> [owners |-> Own(<<"1">>, <<"3">>), price |-> PyInt(999),
                     average_forever |-> 60]]

Listings(cap) ==
    Slices(SampleGames, MaxListing) \cup {LongListing(n) : n \in cap..(cap + MaxExtra)}

\* The answers to a genre or tag request: a failure, a JSON list, a listing.
ListingResponses(cap) ==
    RequestFailures \cup {Json(PyList(<<>>))} \cup
    {Json(PyDict(l)) : l \in Listings(cap)}

Detail(avg, price, owners, genre) ==
    Json([kind |-> "dict", name |-> "game", average_2weeks |-> avg, price |-> price,
          owners |-> owners, genre |-> genre, tags |-> PyDict(<<"Roguelike">>)])

App(avg, store, detail) ==
    [basic_info |-> [average_2weeks |-> avg, name |-> "basic"],
     store |-> store, detail |-> detail]

Released(y) == Json(PyInt(y))

\* An app released last year with 30 minutes of recent playtime.
RecentApp(detail) == App(30, Released(ThisYear - 1), detail)

PricedDetail(p) ==
    Detail(30, PyInt(p), Own(<<"1", "0">>, <<"3", "0">>), <<"Action", "", "RPG">>)

\* Apps of the prices around the tiers; an older app with more recent
\* playtime and a str price; an app whose release-date check fails; apps
\* whose detail request fails; an app nobody played; an app with an
\* unparsable price; an app whose owners are a number; an app whose owners
\* string is unparsable next to one with owners.
SteamApps ==
    <<RecentApp(PricedDetail(3000)),
      RecentApp(PricedDetail(3001)),
      App(60, Released(ThisYear - 4),
          Detail(60, PyStr(<<"3", "0", "0", "0">>), Own(<<"1">>, <<"3">>), <<"RPG">>)),
      RecentApp(PricedDetail(0)),
      RecentApp(PricedDetail(999)),
      RecentApp(PricedDetail(1000)),
      App(30, Timeout, PricedDetail(999)),
      RecentApp(Timeout),
      RecentApp(Detail(0, PyInt(999), Own(<<"1">>, <<"3">>), <<"RPG">>)),
      RecentApp(Detail(30, PyStr(<<"x">>), Own(<<"1">>, <<"3">>), <<"Indie">>)),
      RecentApp(HttpError),
      RecentApp(Detail(30, PyInt(999), PyInt(5), <<"Indie">>)),
      RecentApp(NotJson),
      RecentApp(Detail(30, PyInt(999), PyStr(<<"x">>), <<"Indie">>)),
      RecentApp(PricedDetail(999))>>

\* The answers to the Top-100 request: a failure, a JSON list, a listing
\* of neighbouring apps.
Top100Responses ==
    RequestFailures \cup {Json(PyList(<<>>))} \cup
    {Json(PyDict(l)) : l \in Slices(SteamApps, MaxApps)}

\* The orders in which n release-date checks can complete.
Orders(n) == {f \in [1..n -> 1..n] : \A i, j \in 1..n : f[i] = f[j] => i = j}

\* A listing of an app nobody played, an app released long ago and n apps
\* released last year.
LongTop100(n) ==
    <<RecentApp(Detail(0, PyInt(999), Own(<<"1">>, <<"3">>), <<"RPG">>)),
      App(60, Released(ThisYear - 9), PricedDetail(999))>>
    \o [k \in 1..n |-> RecentApp(PricedDetail(999))]

LongTop100Responses ==
    {Json(PyDict(LongTop100(n))) :
        n \in STEAMSPY_TOP_DETAIL_COUNT..(STEAMSPY_TOP_DETAIL_COUNT + MaxExtra)}

\* The checks of a long listing complete in the order of the listing or in
\* the reverse order.
LongOrders(n) == {[k \in 1..n |-> k], [k \in 1..n |-> n + 1 - k]}

Listed(resp) == IF Failed(resp) \/ ~IsDict(resp.body) THEN 0 ELSE Len(resp.body.items)

RawgGames ==
    <<[name |-> "A", metacritic |-> PyInt(80), genres |-> <<[name |-> "RPG"]>>,
       platforms |-> <<"PC", "PlayStation 5">>],
      [name |-> "B", metacritic |-> PyInt(76),
       genres |-> <<[name |-> "RPG"], [name |-> "Indie"]>>, platforms |-> <<"iOS">>],
      [name |-> "C", metacritic |-> None, genres |-> <<[slug |-> "rpg"]>>,
       platforms |-> <<"Web">>]>>

RawgResults(games) == Json([kind |-> "dict", results |-> games])

RawgListingResponses ==
    RequestFailures \cup
    {RawgResults(<<>>), RawgResults(SubSeq(RawgGames, 1, 2)), RawgResults(RawgGames)}

RawgGenreResponses ==
    {Timeout, RawgResults(<<>>),
     RawgResults(<<[name |-> "Indie", games_count |-> 100],
                   [name |-> "RPG", games_count |-> 300]>>)}

TrendResponses == RequestFailures \cup {Json({}), Json({"roguelike"})}

(***************************************************************************)
(* SpecMarket: one fetch function is called with what the providers serve, *)
(* its return value is formatted or shown, and the page is left.           *)
(***************************************************************************)
CallFetchSteamTop100(years, resp, order) ==
    /\ called = ""
    /\ called' = "fetch_steam_top100"
    /\ served' = [recent_years |-> years, requests |-> <<resp>>, order |-> order]
    /\ returned' = fetch_steam_top100(years, resp, order)
    /\ rendered' = None
    /\ UNCHANGED vars_but_market

CallFetchSteamspyGenres(resps) ==
    /\ called = ""
    /\ called' = "fetch_steamspy_genres"
    /\ served' = [requests |-> resps]
    /\ returned' = fetch_steamspy_genres(resps)
    /\ rendered' = None
    /\ UNCHANGED vars_but_market

CallFetchSteamspyTags(resps) ==
    /\ called = ""
    /\ called' = "fetch_steamspy_tags"
    /\ served' = [requests |-> resps]
    /\ returned' = fetch_steamspy_tags(resps)
    /\ rendered' = None
    /\ UNCHANGED vars_but_market

CallFetchRawgData(has_key, years, listings, genres) ==
    /\ called = ""
    /\ called' = "fetch_rawg_data"
    /\ served' = [recent_years |-> years,
                  requests |-> IF has_key THEN Append(listings, genres) ELSE <<>>]
    /\ returned' = fetch_rawg_data(has_key, years,
                                   [listings |-> listings, genres |-> genres])
    /\ rendered' = None
    /\ UNCHANGED vars_but_market

CallFetchTrends(code, resp) ==
    /\ called = ""
    /\ called' = "fetch_trends"
    /\ served' = [region_code |-> code, requests |-> <<resp>>]
    /\ returned' = fetch_trends(code, resp)
    /\ rendered' = None
    /\ UNCHANGED vars_but_market

\* The argument a formatter gets for the input of fetch function fn: the
\* return value of the call, or else None or that function's failure string.
InputOf(fn, other) == IF called = fn THEN returned ELSE other[fn]

\* RAWG games whose genres are a genre SteamSpy is not asked about, the first
\* and the second genre of STEAMSPY_GENRE_LIST.
ScoredGames ==
    <<[name |-> "S", metacritic |-> PyInt(90), genres |-> <<[name |-> "Shooter"]>>,
       platforms |-> <<"PC">>],
      [name |-> "T", metacritic |-> PyInt(80), genres |-> <<[name |-> "Action"]>>,
       platforms |-> <<"PC">>],
      [name |-> "U", metacritic |-> PyInt(70), genres |-> <<[name |-> "Adventure"]>>,
       platforms |-> <<"PC">>]>>

\* What an earlier call of the two fetch functions of the blue-ocean section
\* returned: the second RAWG listing timed out, the second genre request
\* timed out.
ScoredRawgData ==
    fetch_rawg_data(TRUE, 5,
        [listings |-> <<RawgResults(ScoredGames), Timeout,
                        RawgResults(SubSeq(ScoredGames, 1, 2))>>,
         genres |-> Timeout])

CollectedGenreData ==
    fetch_steamspy_genres(
        [k \in 1..NumGenres |->
            IF k = 1 THEN Json(PyDict(SubSeq(SampleGames, 1, 2))) ELSE Timeout])

OtherInputs ==
    {[fn \in {"fetch_steam_top100", "fetch_rawg_data", "fetch_steamspy_genres",
              "fetch_steamspy_tags"} |-> None],
     [fn \in {"fetch_steam_top100", "fetch_rawg_data", "fetch_steamspy_genres",
              "fetch_steamspy_tags"} |-> FailStr(fn)],
     [fn \in {"fetch_steam_top100", "fetch_rawg_data", "fetch_steamspy_genres",
              "fetch_steamspy_tags"} |->
         CASE fn = "fetch_rawg_data" -> ScoredRawgData
           [] fn = "fetch_steamspy_genres" -> CollectedGenreData
           [] OTHER -> None]}

FormatAnalysis(other) ==
    /\ called \in DOMAIN other
    /\ rendered = None
    /\ LET args == [steam_data |-> InputOf("fetch_steam_top100", other),
                    rawg_data |-> InputOf("fetch_rawg_data", other),
                    steamspy_genres |-> InputOf("fetch_steamspy_genres", other),
                    steamspy_tags |-> InputOf("fetch_steamspy_tags", other),
                    recent_years |-> DictGet(served, "recent_years", 5)]
       IN  rendered' = [by |-> "format_comprehensive_analysis", args |-> args,
                        out |-> format_comprehensive_analysis(
                                    args.steam_data, args.rawg_data,
                                    args.steamspy_genres, args.steamspy_tags,
                                    args.recent_years),
                        again |-> None]
    /\ UNCHANGED <<called, served, returned>>
    /\ UNCHANGED vars_but_market

\* The formatter is called a second time with the arguments of the first.
FormatAgain ==
    /\ rendered # None
    /\ rendered.by = "format_comprehensive_analysis"
    /\ rendered.again = None
    /\ rendered' = [rendered EXCEPT !.again =
                        format_comprehensive_analysis(
                            rendered.args.steam_data, rendered.args.rawg_data,
                            rendered.args.steamspy_genres, rendered.args.steamspy_tags,
                            rendered.args.recent_years)]
    /\ UNCHANGED <<called, served, returned>>
    /\ UNCHANGED vars_but_market

FormatSummary ==
    /\ called = "fetch_steam_top100"
    /\ rendered = None
    /\ rendered' = [by |-> "format_steam_summary",
                    args |-> [steam_data |-> returned],
                    out |-> format_steam_summary(returned, served.recent_years)]
    /\ UNCHANGED <<called, served, returned>>
    /\ UNCHANGED vars_but_market

\* The Step-2 price tab on what Step 1 stored of the return value: None in
\* place of a failure string.
ShowPriceTab ==
    /\ called = "fetch_steam_top100"
    /\ rendered = None
    /\ LET steam == IF IsStr(returned) THEN None ELSE returned
       IN  rendered' = [by |-> "price_tab", args |-> [steam_data |-> steam],
                        out |-> price_tab(steam)]
    /\ UNCHANGED <<called, served, returned>>
    /\ UNCHANGED vars_but_market

ExtractKeywords ==
    /\ called = "fetch_trends"
    /\ rendered = None
    /\ rendered' = [by |-> "extract_trend_keywords", args |-> [trend_data |-> returned],
                    out |-> PyList(extract_trend_keywords(returned))]
    /\ UNCHANGED <<called, served, returned>>
    /\ UNCHANGED vars_but_market

\* The page is left: the next run starts over.
Leave ==
    /\ rendered # None
    /\ called' = ""
    /\ served' = None
    /\ returned' = None
    /\ rendered' = None
    /\ UNCHANGED vars_but_market

NextMarket ==
    \/ \E years \in YearChoices, resp \in Top100Responses :
          \E order \in Orders(Listed(resp)) : CallFetchSteamTop100(years, resp, order)
    \/ \E years \in YearChoices, resp \in LongTop100Responses :
          \E order \in LongOrders(Listed(resp)) :
              CallFetchSteamTop100(years, resp, order)
    \/ \E resps \in [1..NumGenres -> ListingResponses(GenreSlice)] :
          CallFetchSteamspyGenres(resps)
    \/ \E resps \in [1..NumTags -> ListingResponses(TagSlice)] :
          CallFetchSteamspyTags(resps)
    \/ \E years \in YearChoices,
          listings \in [1..Len(RAWG_ORDERINGS) -> RawgListingResponses],
          genres \in RawgGenreResponses :
          CallFetchRawgData(TRUE, years, listings, genres)
    \/ CallFetchRawgData(FALSE, 5, <<>>, Timeout)
    \/ \E code \in {"KR", ""}, resp \in TrendResponses : CallFetchTrends(code, resp)
    \/ \E other \in OtherInputs : FormatAnalysis(other)
    \/ FormatAgain
    \/ FormatSummary
    \/ ShowPriceTab
    \/ ExtractKeywords
    \/ Leave

InitCollect == InitParse /\ InitSession(TRUE) /\ InitMarket /\ InitStarted /\ InitFan /\ InitText /\ InitRun
        /\ InitShared /\ InitOwners

SpecMarket == InitCollect /\ [][NextMarket]_vars

\* The formatter was given the return value of the call.
Formatted == rendered # None /\ rendered.by = "format_comprehensive_analysis"

\* The tier the price statistics name for a price, for the prices they name.
NamedTier(p) ==
    CASE p = 0 -> "free"
      [] p = 999 -> "~$10"
      [] p = 3000 -> "$10~$30"
      [] p = 3001 -> "$30+"
      [] OTHER -> "unnamed"

BucketTotal(buckets) ==
    SumSeq([k \in 1..Len(BucketNames) |-> Len(buckets[BucketNames[k]])])

(***************************************************************************)
(* C2: the price statistics put every game in exactly one bucket by its    *)
(* price in cents, price 0 in the free bucket, 999 in "~$10", 3000 in      *)
(* "$10~$30" and 3001 in "$30+", and the report formatter and the Step-2   *)
(* tab classify identically.                                               *)
(***************************************************************************)
C2_Claim ==
    (/\ rendered # None
     /\ rendered.by \in {"format_comprehensive_analysis", "price_tab"}
     /\ called = "fetch_steam_top100"
     /\ IsDict(returned)
     /\ returned.games # <<>>) =>
        LET games == returned.games
            buckets == IF Formatted THEN rendered.out.price_buckets ELSE rendered.out
        IN  /\ BucketTotal(buckets) = Len(games)
            /\ buckets = buckets_by(games, report_tiers(games))
            /\ (\A k \in 1..Len(games) : NamedTier(games[k].price) # "unnamed") =>
                  buckets = buckets_by(games, [j \in 1..Len(games) |-> NamedTier(games[j].price)])

\* The tab shows a game of 3000 cents in "$10~$30" and one of 3001 in "$30+".
C2_Witness ==
    /\ rendered # None
    /\ rendered.by = "price_tab"
    /\ IsDict(returned)
    /\ \E i, j \in 1..Len(returned.games) :
          /\ returned.games[i].price = 3000
          /\ returned.games[j].price = 3001
    /\ Len(rendered.out["$10~$30"]) = 1
    /\ Len(rendered.out["$30+"]) = 1

\* The listing that was served for the genre of an entry of the result.
ServedListing(genre) ==
    served.requests[CHOOSE i \in 1..Len(GenreList) : GenreList[i] = genre].body.items

(***************************************************************************)
(* C3: for every genre collected by fetch_steamspy_genres, total_owners is *)
(* the sum of the parsed owners of all games returned for the genre, the   *)
(* games that game_count counts, whatever the length of the listing.       *)
(***************************************************************************)
C3_Claim ==
    (called = "fetch_steamspy_genres" /\ IsDict(returned)) =>
        \A k \in 1..Len(returned.items) :
            LET games == ServedListing(returned.items[k].genre)
                info == returned.items[k].info
            IN  /\ info.game_count = Len(games)
                /\ info.total_owners =
                      SumSeq([j \in 1..Len(games) |->
                                 parse_owners_of(
                                     DictGet(games[j], "owners", PyStr(<<"0">>))).v])

(***************************************************************************)
(* C4: section 1 of the report lists the SteamSpy genres in descending     *)
(* order of total_owners, genres of equal total_owners in fetch order.     *)
(***************************************************************************)
C4_Claim ==
    (Formatted /\ IsDict(rendered.args.steamspy_genres)) =>
        LET listed == rendered.out.market_size
            fetched == rendered.args.steamspy_genres.items
            pos(g) == CHOOSE k \in 1..Len(fetched) : fetched[k].genre = g
        IN  /\ Len(listed) = Len(fetched)
            /\ \A k \in 1..Len(fetched) : \E j \in 1..Len(listed) :
                  /\ listed[j].genre = fetched[k].genre
                  /\ listed[j].total_owners = fetched[k].info.total_owners
            /\ \A i, j \in 1..Len(listed) : i < j =>
                  /\ listed[i].total_owners >= listed[j].total_owners
                  /\ listed[i].total_owners = listed[j].total_owners =>
                        pos(listed[i].genre) < pos(listed[j].genre)

\* A genre of 400 owners is listed above the genre of 50 fetched before it.
C4_Witness ==
    /\ Formatted
    /\ IsDict(rendered.args.steamspy_genres)
    /\ Len(rendered.out.market_size) = 2
    /\ rendered.out.market_size[1].total_owners = 400
    /\ rendered.out.market_size[2].total_owners = 50
    /\ rendered.args.steamspy_genres.items[1].info.total_owners = 50

(***************************************************************************)
(* C8: whatever the providers answer, the fetch functions return a failure *)
(* string or data and never raise; format_comprehensive_analysis and       *)
(* format_steam_summary given a failure string or None in place of an      *)
(* input return their text, with nothing in it from that input.            *)
(***************************************************************************)
C8_Claim ==
    /\ called # "" => returned.kind \in {"str", "dict"}
    /\ Formatted =>
          LET args == rendered.args
              out == rendered.out
          IN  /\ out.kind = "report"
              /\ ~IsDict(args.steam_data) =>
                    /\ out.price_buckets = None
                    /\ out.price_lines = <<>>
                    /\ out.hit_tags = <<>>
                    /\ out.year_genres = {}
              /\ ~IsDict(args.rawg_data) =>
                    /\ out.rawg_genres = <<>>
                    /\ out.metacritic = <<>>
                    /\ out.blue_ocean = <<>>
                    /\ out.platforms = <<>>
                    /\ out.multi_platform = None
              /\ ~IsDict(args.steamspy_genres) =>
                    /\ out.market_size = <<>>
                    /\ out.blue_ocean = <<>>
              /\ ~IsDict(args.steamspy_tags) => out.co_tags = <<>>
    /\ (rendered # None /\ rendered.by = "format_steam_summary") =>
          /\ rendered.out.kind = "text"
          /\ ~IsDict(rendered.args.steam_data) => rendered.out.empty

\* The Top-100 request timed out, fetch_steam_top100 returned its failure
\* string, and the formatter made a report of it.
C8_Witness ==
    /\ called = "fetch_steam_top100"
    /\ served.requests[1] = Timeout
    /\ IsStr(returned)
    /\ Formatted
    /\ rendered.args.steam_data = returned
    /\ rendered.out.kind = "report"

\* A request that failed, or whose payload is not of the expected shape: no
\* dict, a listing entry whose owners are no str, a game whose genre entry
\* has no name.
RequestFailed(resp) ==
    \/ Failed(resp)
    \/ ~IsDict(resp.body)
    \/ /\ "items" \in DOMAIN resp.body
       /\ \E k \in 1..Len(resp.body.items) :
             /\ "owners" \in DOMAIN resp.body.items[k]
             /\ ~IsStr(resp.body.items[k].owners)
    \/ /\ "results" \in DOMAIN resp.body
       /\ \E k \in 1..Len(resp.body.results) :
             /\ "genres" \in DOMAIN resp.body.results[k]
             /\ \E g \in 1..Len(resp.body.results[k].genres) :
                   "name" \notin DOMAIN resp.body.results[k].genres[g]

FailureStrings ==
    {FailStr("Steam"), FailStr("SteamSpy genres"), FailStr("SteamSpy tags"),
     FailStr("RAWG")}

(***************************************************************************)
(* C9: a fetch function returns its failure string only when a request     *)
(* failed; when every request succeeded with empty listings the result is  *)
(* empty data, not the failure string.                                     *)
(***************************************************************************)
C9_Claim ==
    /\ (called # "" /\ returned \in FailureStrings) =>
          \E k \in 1..Len(served.requests) : RequestFailed(served.requests[k])
    /\ (called = "fetch_trends" /\ IsStr(returned)) => Failed(served.requests[1])

\* The payloads a report was built from.
ReportPayloads(r) == {x \in {r.steam, r.rawg, r.genres, r.tags} : IsDict(x)}

(***************************************************************************)
(* C5: every market report built in Step 1 or Step 3 holds only Steam and  *)
(* RAWG data collected under the recent_years value the report is built    *)
(* and labelled with.                                                      *)
(***************************************************************************)
C5_Claim ==
    last_report # None =>
        \A x \in {last_report.steam, last_report.rawg} :
            IsDict(x) => x.years = last_report.years

(***************************************************************************)
(* C6: a Step-1 run reuses the cached Steam payload if and only if it is   *)
(* present, is no failure string, was stored with the selected             *)
(* recent_years and is younger than CACHE_TTL; otherwise it fetches, and   *)
(* on success stores payload, recent_years and timestamp together, so that *)
(* a stored payload always carries the filter value it was collected with. *)
(***************************************************************************)
C6_StoredTogether ==
    steam_data # None =>
        /\ IsDict(steam_data)
        /\ steam_data_recent_years = PyInt(steam_data.years)
        /\ steam_data_time = steam_data.at

C6_RunStep ==
    last_run' # None =>
        LET reusable == /\ steam_data # None
                        /\ steam_data.kind # "str"
                        /\ steam_data_recent_years = PyInt(recent_years)
                        /\ now - steam_data_time < CACHE_TTL
        IN  /\ (last_run'.steam_from = "cache") <=> reusable
            /\ reusable =>
                  /\ UNCHANGED <<steam_data, steam_data_recent_years, steam_data_time>>
                  /\ last_report'.steam = steam_data
            /\ ~reusable =>
                  \/ /\ steam_data' = None
                     /\ last_report'.steam = None
                  \/ /\ steam_data' = SteamPayload(recent_years, now)
                     /\ steam_data_recent_years' = PyInt(recent_years)
                     /\ steam_data_time' = now
                     /\ last_report'.steam = steam_data'

C6_Theorem == [](C6_StoredTogether) /\ [][C6_RunStep]_vars

\* A Step-1 run has just reused a Steam payload stored at an earlier time.
C6_Witness ==
    /\ last_run # None
    /\ last_run.steam_from = "cache"
    /\ steam_data.at < now
    /\ last_report.steam = steam_data

(***************************************************************************)
(* C7: no cached Steam, SteamSpy genre/tag or RAWG payload older than      *)
(* CACHE_TTL is used to build a market report, in Step 1 or in Step 3.     *)
(***************************************************************************)
C7_Claim ==
    last_report # None =>
        \A x \in ReportPayloads(last_report) : last_report.at - x.at < CACHE_TTL

(***************************************************************************)
(* C10: whenever the AI idea generation of a Step-1 run succeeds the run   *)
(* ends with step = 2, whatever the trends, Steam, genre/tag and RAWG      *)
(* fetches and the AI market analysis did; when the trends fetch fails the *)
(* keywords are the seed list of the selected region.                      *)
(***************************************************************************)
C10_RunStep ==
    last_run' # None =>
        /\ last_run'.ideas_ok => step' = 2 /\ game_ideas' # None
        /\ last_run'.trends_failed =>
              trend_keywords' = PyList(SEED_KEYWORDS(REGIONS(selected_region)))

C10_Theorem == [][C10_RunStep]_vars

\* A run in which trends, Steam, genres, tags, RAWG and the market analysis
\* all failed and the ideas arrived, with the global region selected.
C10_Witness ==
    /\ last_run # None
    /\ last_run.trends_failed
    /\ last_run.ideas_ok
    /\ region_code = ""
    /\ steam_data = None
    /\ rawg_key /\ rawg_data = None
    /\ IsStr(steamspy_genre_data.genres) /\ IsStr(steamspy_genre_data.tags)
    /\ market_analysis = None
    /\ step = 2

(***************************************************************************)
(* C11: an AI idea response that is not valid JSON, or is valid JSON but   *)
(* no list of ideas, is surfaced as an error in Step 1: step stays 1 and   *)
(* game_ideas is not set to the value parsed from it.                      *)
(***************************************************************************)
C11_Claim ==
    (last_run # None /\ last_run.kind = "step1"
        /\ last_run.idea_response \in {"exc", "object"}) =>
        /\ step = 1
        /\ game_ideas = None

\* SpecFan: the FanDNA session.
SpecFan == Init /\ [][NextFan]_vars

(***************************************************************************)
(* C14: in FanDNA the transition back to start is available in every       *)
(* state the user can be in after leaving start: survey, analyzing (also   *)
(* after a failed recommendation) and result.                              *)
(***************************************************************************)
C14_Claim == fan_step # "start" => ENABLED FanRestart

(***************************************************************************)
(* SpecStart: both apps from the first load of the page.  The operator     *)
(* edits secrets.toml; a run of a script stops at the credential check or  *)
(* initialises the session state; the user acts in an initialised session. *)
(***************************************************************************)
InitUnstarted ==
    /\ InitParse /\ InitMarket /\ InitText /\ InitRun /\ InitShared
    /\ InitOwners
    /\ secret \in Secrets
    /\ stopped = {}
    /\ step = NoStep
    /\ trend_data = Absent
    /\ trend_keywords = Absent
    /\ game_ideas = Absent
    /\ selected_idea = Absent
    /\ design_doc = Absent
    /\ market_analysis = Absent
    /\ steam_data = None
    /\ steam_data_recent_years = None
    /\ steam_data_time = 0
    /\ steamspy_genre_data = None
    /\ steamspy_genre_time = 0
    /\ rawg_data = None
    /\ rawg_data_time = 0
    /\ recent_years = 5
    /\ use_google_trends = FALSE
    /\ region_choice = RegionLabels[1]
    /\ rawg_key = TRUE
    /\ now = 0
    /\ last_run = None
    /\ last_report = None
    /\ doc_log = NoDocLog
    /\ fan_step = FanNoStep
    /\ fan_questions = Absent
    /\ fan_answers = Absent
    /\ fan_result = Absent

\* The operator writes API_KEY in secrets.toml, or removes it.
WriteSecret(s) ==
    /\ s # secret
    /\ secret' = s
    /\ UNCHANGED <<stopped, vars_but_start>>

\* for key in SESSION_KEYS: if key not in st.session_state: ... = None
SetDefault(v, default) == IF v = Absent THEN default ELSE v

\* A run of game_planner.py that is stopped at the credential check, or the
\* first run that passes it.
PlannerLoad ==
    /\ ~CredentialOk(secret) \/ step = NoStep
    /\ IF ~CredentialOk(secret)
       THEN /\ stopped' = stopped \cup {"game_planner"}
            /\ UNCHANGED vars_keys
       ELSE /\ stopped' = stopped \ {"game_planner"}
            /\ step' = IF step = NoStep THEN 1 ELSE step
            /\ trend_data' = SetDefault(trend_data, None)
            /\ trend_keywords' = SetDefault(trend_keywords, None)
            /\ game_ideas' = SetDefault(game_ideas, None)
            /\ selected_idea' = SetDefault(selected_idea, None)
            /\ design_doc' = SetDefault(design_doc, None)
            /\ market_analysis' = SetDefault(market_analysis, None)
    /\ UNCHANGED <<secret, vars_cache, vars_widgets, now, last_run, last_report,
                   doc_log, vars_parse, vars_market, vars_fan, vars_text,
                   vars_run, vars_shared, vars_owners>>

\* The same for FanDNA.py.
FanLoad ==
    /\ ~CredentialOk(secret) \/ fan_step = FanNoStep
    /\ IF ~CredentialOk(secret)
       THEN /\ stopped' = stopped \cup {"FanDNA"}
            /\ UNCHANGED vars_fan
       ELSE /\ stopped' = stopped \ {"FanDNA"}
            /\ fan_step' = IF fan_step = FanNoStep THEN "start" ELSE fan_step
            /\ fan_answers' = SetDefault(fan_answers, PyList(<<>>))
            /\ fan_questions' = SetDefault(fan_questions, PyList(<<>>))
            /\ UNCHANGED fan_result
    /\ UNCHANGED <<secret, vars_parse, vars_session, vars_market, vars_text,
                   vars_run, vars_shared, vars_owners>>

\* The user's actions in game_planner, every fetch succeeding.
NextPlanner ==
    \/ \E io \in {"ideas", "exc"} : Step1Run(None, "ok", "ok", "ok", "ok", "dict", io)
    \/ \E out \in DocOutcomes : SelectIdea(1, out)
    \/ Regenerate
    \/ Reset

NextStart ==
    \/ \E s \in Secrets : WriteSecret(s)
    \/ PlannerLoad
    \/ FanLoad
    \/ step # NoStep /\ CredentialOk(secret) /\ NextPlanner
    \/ fan_step # FanNoStep /\ NextFan

SpecStart == InitUnstarted /\ [][NextStart]_vars

\* The credential the claim calls absent, empty or still the placeholder.
BadCredential == secret \in {NoSecret, Secret(""), Secret(PLACEHOLDER_KEY)}

(***************************************************************************)
(* C12: a run of either app that finds the credential absent, empty or    *)
(* still the placeholder is stopped with the operator instruction: it does *)
(* not initialise the session state and no fetch, AI call or step          *)
(* transition occurs in it.                                                *)
(***************************************************************************)
C12_RunStep ==
    (BadCredential /\ secret' = secret) =>
        /\ UNCHANGED <<vars_session, vars_fan, vars_market>>
        /\ stopped' # {}
        /\ stopped \subseteq stopped'

C12_Theorem == [][C12_RunStep]_vars

\* A session that was in step 2 when the key was replaced by the
\* placeholder: the next run of each app was stopped; FanDNA never started.
C12_Witness ==
    /\ secret = Secret(PLACEHOLDER_KEY)
    /\ stopped = {"game_planner", "FanDNA"}
    /\ step = 2
    /\ fan_step = FanNoStep
    /\ fan_questions = Absent

(***************************************************************************)
(* C13: the reset action is available in step 1, 2 and 3; after it step is *)
(* 1 and trend_data, trend_keywords, game_ideas, selected_idea, design_doc *)
(* and market_analysis are None, and the Steam, SteamSpy genre/tag and     *)
(* RAWG cache entries are what they were.                                  *)
(***************************************************************************)
C13_ResetStep ==
    Reset =>
        /\ step' = 1
        /\ trend_data' = None /\ trend_keywords' = None /\ game_ideas' = None
        /\ selected_idea' = None /\ design_doc' = None /\ market_analysis' = None
        /\ steam_data' = steam_data
        /\ steam_data_recent_years' = steam_data_recent_years
        /\ steam_data_time' = steam_data_time
        /\ steamspy_genre_data' = steamspy_genre_data
        /\ steamspy_genre_time' = steamspy_genre_time
        /\ rawg_data' = rawg_data
        /\ rawg_data_time' = rawg_data_time

C13_Theorem == [](step \in {1, 2, 3} /\ ENABLED Reset) /\ [][C13_ResetStep]_vars

\* The session after a reset that followed a Step-1 run: the start state
\* with the three caches filled.
C13_Witness ==
    /\ step = 1
    /\ trend_keywords = None
    /\ game_ideas = None
    /\ steam_data # None
    /\ steamspy_genre_data # None
    /\ rawg_data # None

(***************************************************************************)
(* C15: once a design document has been generated for the selected idea,   *)
(* a rerun of the page in step 3 does not call generate_design_document    *)
(* again and shows that document; generate_design_document returns a       *)
(* document at most once between a selection and the next reset.           *)
(***************************************************************************)
C15_RunStep ==
    (step = 3 /\ Truthy(design_doc) /\ step' = 3) =>
        /\ design_doc' = design_doc
        /\ doc_log'.calls = doc_log.calls
        /\ doc_log'.shown = design_doc

C15_Theorem == [](doc_log.made <= 1) /\ [][C15_RunStep]_vars

\* The document arrived at the second call, and a later rerun showed it.
C15_Witness ==
    /\ step = 3
    /\ Truthy(design_doc)
    /\ doc_log = [calls |-> 2, made |-> 1, shown |-> design_doc]
    /\ last_report = None

SpecText == Init /\ [][NextText]_vars

\* A line that reads as a fence: blanks, then three backticks.
IsFenceLine(ln) == StartsWithFence(StripText(ln))

(***************************************************************************)
(* C17: for a reply made of an opening fence line, payload lines and a     *)
(* closing fence line the parsed value is the value parsed from the        *)
(* payload lines alone, and a reply without a fence line is parsed as it   *)
(* stands.                                                                 *)
(***************************************************************************)
C17_Claim ==
    ai_parsed # None =>
        /\ (Len(ai_reply) >= 3 /\ StartsWithFence(ai_reply[1])
                /\ IsFenceLine(ai_reply[Len(ai_reply)])) =>
              ai_parsed.value =
                  json_loads(JoinLines(SubSeq(ai_reply, 2, Len(ai_reply) - 1)))
        /\ (\A k \in 1..Len(ai_reply) : ~IsFenceLine(ai_reply[k])) =>
              ai_parsed.value = json_loads(JoinLines(ai_reply))

(***************************************************************************)
(* SpecRun: fetch_steam_top100, fetch_steamspy_genres and                  *)
(* fetch_steamspy_tags as Step 1 calls them, one statement of one thread   *)
(* at a time.  The calling thread submits the release-date checks, collects*)
(* them with as_completed, leaves the with block, sorts, and walks the     *)
(* detail loop and the two list loops; the worker threads of the pool run  *)
(* _check_release.  A check is kept by its outcome: "recent" when          *)
(* release_year is not None and release_year >= cutoff_year, "other"       *)
(* otherwise.  Delays are in tenths of a second.                           *)
(***************************************************************************)
MAX_WORKERS == 10

DETAIL_DELAY == 10

LIST_DELAY == 15

\* len(top100)
NumItems == 12

CheckOutcomes == {"recent", "other"}

ReplyOutcomes == {"ok", "skip", "fail"}

\* time.sleep(...) before a request to the endpoint, without the delay
\* before appdetails.
delay_before_lists_only(endpoint) == IF endpoint = "appdetails" THEN 0 ELSE LIST_DELAY

\* time.sleep(1) before appdetails, time.sleep(1.5) before genre and tag.
delay_before(endpoint) == IF endpoint = "appdetails" THEN DETAIL_DELAY ELSE LIST_DELAY

\* A pool without the cap on its threads.
WorkerFreeUncapped == pool.running < NumItems + 1

\* ThreadPoolExecutor(max_workers=10): a thread is idle or can be created.
WorkerFree == pool.running < MAX_WORKERS

\* requests.get(STEAMSPY_BASE_URL, params={"request": "top100in2weeks"})
CallTop100(ok) ==
    /\ run.pc = "idle"
    /\ run' = IF ok THEN [run EXCEPT !.pc = "submit"]
              ELSE [run EXCEPT !.pc = "genre", !.i = 1]
    /\ UNCHANGED <<pool, run_recent, in_flight, sent>>
    /\ UNCHANGED vars_but_run

\* executor.submit(_check_release, item) for the next item of top100
Submit ==
    /\ run.pc = "submit"
    /\ pool' = [pool EXCEPT !.submitted = @ + 1]
    /\ run' = IF pool.submitted + 1 = NumItems THEN [run EXCEPT !.pc = "collect"]
              ELSE run
    /\ UNCHANGED <<run_recent, in_flight, sent>>
    /\ UNCHANGED vars_but_run

\* A worker takes the next submitted item and sends the Steam Store request
\* of _get_release_year.
WorkerStart ==
    /\ pool.started < pool.submitted
    /\ WorkerFree
    /\ pool' = [pool EXCEPT !.started = @ + 1, !.running = @ + 1]
    /\ in_flight' = [in_flight EXCEPT !["store"] = @ + 1]
    /\ UNCHANGED <<run_recent, run, sent>>
    /\ UNCHANGED vars_but_run

\* _check_release returns (appid, basic_info, release_year): the future is
\* completed.
WorkerFinish(outcome) ==
    /\ pool.running > 0
    /\ pool' = [pool EXCEPT !.running = @ - 1, !.done[outcome] = @ + 1]
    /\ in_flight' = [in_flight EXCEPT !["store"] = @ - 1]
    /\ UNCHANGED <<run_recent, run, sent>>
    /\ UNCHANGED vars_but_run

\* for future in as_completed(futures): ... recent_games.append(...)
Collect(outcome) ==
    /\ run.pc = "collect"
    /\ pool.done[outcome] > 0
    /\ pool' = [pool EXCEPT !.done[outcome] = @ - 1, !.collected = @ + 1]
    /\ run_recent' = IF outcome = "recent" THEN Append(run_recent, outcome)
                      ELSE run_recent
    /\ UNCHANGED <<run, in_flight, sent>>
    /\ UNCHANGED vars_but_run

\* as_completed is exhausted, the with block shuts the executor down
\* (wait=True), recent_games.sort(...)
ExitPool ==
    /\ run.pc = "collect"
    /\ pool.collected = NumItems
    /\ pool.running = 0
    /\ run' = [run EXCEPT !.pc = "appdetails", !.i = 1, !.req = "top"]
    /\ UNCHANGED <<pool, run_recent, in_flight, sent>>
    /\ UNCHANGED vars_but_run

\* The sequence a loop walks.
LoopLength ==
    CASE run.pc = "appdetails" -> Len(run_recent)
      [] run.pc = "genre" -> Len(GenreList)
      [] run.pc = "tag" -> Len(TagList)
      [] OTHER -> 0

InLoop ==
    /\ run.pc \in {"appdetails", "genre", "tag"}
    /\ run.i <= LoopLength
    /\ run.pc = "appdetails" => run.games < STEAMSPY_TOP_DETAIL_COUNT

\* time.sleep(1) in the detail loop, time.sleep(1.5) in the list loops
Sleep ==
    /\ InLoop
    /\ run.req = "top"
    /\ run' = [run EXCEPT !.req = "slept", !.delay = delay_before(run.pc)]
    /\ UNCHANGED <<pool, run_recent, in_flight, sent>>
    /\ UNCHANGED vars_but_run

\* status_text.caption(...) raises in a list loop: except Exception: continue
CaptionFails ==
    /\ InLoop
    /\ run.pc \in {"genre", "tag"}
    /\ run.req = "top"
    /\ run' = [run EXCEPT !.i = @ + 1, !.last = "not sent"]
    /\ UNCHANGED <<pool, run_recent, in_flight, sent>>
    /\ UNCHANGED vars_but_run

\* requests.get(STEAMSPY_BASE_URL, params={"request": ...})
Send ==
    /\ run.req = "slept"
    /\ run' = [run EXCEPT !.req = "sent", !.delay = 0,
                          !.details = IF run.pc = "appdetails" THEN @ + 1 ELSE @]
    /\ in_flight' = [in_flight EXCEPT ![run.pc] = @ + 1]
    /\ sent' = [endpoint |-> run.pc, delay |-> run.delay, i |-> run.i,
                after |-> run.last]
    /\ UNCHANGED <<pool, run_recent>>
    /\ UNCHANGED vars_but_run

\* Receive with a failed request tried again.
ReceiveRetry(outcome) ==
    /\ run.req = "sent"
    /\ in_flight' = [in_flight EXCEPT ![run.pc] = @ - 1]
    /\ run' = [run EXCEPT !.req = "top", !.last = outcome,
                          !.i = IF outcome = "fail" THEN @ ELSE @ + 1,
                          !.games = IF run.pc = "appdetails" /\ outcome = "ok"
                                    THEN @ + 1 ELSE @]
    /\ UNCHANGED <<pool, run_recent, sent>>
    /\ UNCHANGED vars_but_run

\* The response arrives: used ("ok"), average_2weeks == 0 or an empty list
\* ("skip"), or an exception or timeout ("fail"); the loop goes on in each
\* case.
Receive(outcome) ==
    /\ run.req = "sent"
    /\ in_flight' = [in_flight EXCEPT ![run.pc] = @ - 1]
    /\ run' = [run EXCEPT !.req = "top", !.i = @ + 1, !.last = outcome,
                          !.games = IF run.pc = "appdetails" /\ outcome = "ok"
                                    THEN @ + 1 ELSE @]
    /\ UNCHANGED <<pool, run_recent, sent>>
    /\ UNCHANGED vars_but_run

\* The loop ends (or breaks at STEAMSPY_TOP_DETAIL_COUNT games): the
\* function returns and Step 1 calls the next one.
LoopEnd ==
    /\ run.pc \in {"appdetails", "genre", "tag"}
    /\ run.req = "top"
    /\ ~InLoop
    /\ run' = [run EXCEPT !.pc = CASE run.pc = "appdetails" -> "genre"
                                   [] run.pc = "genre" -> "tag"
                                   [] OTHER -> "rawg",
                          !.i = 1]
    /\ UNCHANGED <<pool, run_recent, in_flight, sent>>
    /\ UNCHANGED vars_but_run

\* fetch_rawg_data returns its data or its failure string (or is not called
\* without a key); the report is formatted.
RunRawg ==
    /\ run.pc = "rawg"
    /\ run' = [run EXCEPT !.pc = "analysis"]
    /\ UNCHANGED <<pool, run_recent, in_flight, sent>>
    /\ UNCHANGED vars_but_run

\* try: market_analysis = generate_market_analysis(...)
\* except Exception: st.warning(...); market_analysis = None
RunAnalysis(mo) ==
    /\ run.pc = "analysis"
    /\ market_analysis' = TryExcept(generate_market_analysis(mo), None)
    /\ run' = [run EXCEPT !.pc = "ideas"]
    /\ UNCHANGED <<step, trend_data, trend_keywords, game_ideas, selected_idea,
                   design_doc, vars_cache, vars_widgets, now, last_run,
                   last_report, doc_log>>
    /\ UNCHANGED <<pool, run_recent, in_flight, sent>>
    /\ UNCHANGED <<vars_parse, vars_market, vars_start, vars_fan, vars_text,
                   vars_shared, vars_owners>>

\* try: ideas = generate_game_ideas(...); game_ideas = ideas; step = 2;
\* st.rerun()   except Exception: st.error(...)
RunIdeas(io) ==
    /\ run.pc = "ideas"
    /\ LET ideas == generate_game_ideas(market_analysis, io)
       IN  /\ game_ideas' = IF ideas = EXC THEN game_ideas ELSE ideas
           /\ step' = StepAfterIdeas(ideas)
           /\ run' = [run EXCEPT !.pc = "done", !.error = (ideas = EXC)]
    /\ UNCHANGED <<trend_data, trend_keywords, selected_idea, design_doc,
                   market_analysis, vars_cache, vars_widgets, now, last_run,
                   last_report, doc_log>>
    /\ UNCHANGED <<pool, run_recent, in_flight, sent>>
    /\ UNCHANGED <<vars_parse, vars_market, vars_start, vars_fan, vars_text,
                   vars_shared, vars_owners>>

NextRun ==
    \/ \E ok \in BOOLEAN : CallTop100(ok)
    \/ Submit
    \/ WorkerStart
    \/ \E outcome \in CheckOutcomes : WorkerFinish(outcome)
    \/ \E outcome \in CheckOutcomes : Collect(outcome)
    \/ ExitPool
    \/ Sleep
    \/ CaptionFails
    \/ Send
    \/ \E outcome \in ReplyOutcomes : Receive(outcome)
    \/ LoopEnd
    \/ RunRawg
    \/ \E mo \in AnalysisOutcomes : RunAnalysis(mo)
    \/ \E io \in IdeaOutcomes : RunIdeas(io)

SpecRun == Init /\ [][NextRun]_vars

\* A statement of the calling thread was executed.
CollectorStep == pool'.collected # pool.collected \/ run' # run

(***************************************************************************)
(* C18: at most 10 release-date checks are in flight, no SteamSpy detail   *)
(* request is sent before every release-date check has completed, and the  *)
(* list of recent games changes only in a step of the collecting thread,   *)
(* never in a step of a worker.                                            *)
(***************************************************************************)
C18_Theorem ==
    /\ [](in_flight["store"] <= 10)
    /\ []((in_flight["appdetails"] > 0 \/ (sent # None /\ sent.endpoint = "appdetails"))
            => (pool.started = NumItems /\ pool.running = 0
                  /\ pool.collected = NumItems /\ in_flight["store"] = 0))
    /\ [][run_recent' # run_recent =>
            (CollectorStep /\ pool'.started = pool.started
               /\ pool'.running = pool.running)]_vars

\* Ten checks are in flight, one more is waiting in the queue, and the
\* collecting thread has appended a game already.
C18_Witness ==
    /\ in_flight["store"] = 10
    /\ pool.started < pool.submitted
    /\ run_recent # <<>>

(***************************************************************************)
(* C19: at most one request to the appdetails, genre and tag endpoints of  *)
(* SteamSpy is in flight at any time, and every such request was sent      *)
(* right after the full delay of its endpoint (1 s before appdetails,      *)
(* 1.5 s before genre and tag), also when the request before it failed or  *)
(* was skipped.                                                            *)
(***************************************************************************)
C19_Theorem ==
    /\ [](in_flight["appdetails"] + in_flight["genre"] + in_flight["tag"] <= 1)
    /\ [][\A e \in {"appdetails", "genre", "tag"} :
            in_flight'[e] > in_flight[e] =>
                /\ run.req = "slept"
                /\ run.delay = (IF e = "appdetails" THEN 10 ELSE 15)
                /\ sent'.delay = run.delay]_vars

\* A genre request is in flight that was sent, after the full delay, behind
\* a request that failed; detail requests were skipped and used before.
C19_Witness ==
    /\ in_flight["genre"] = 1
    /\ sent.after = "fail"
    /\ sent.delay = 15
    /\ run.games > 0
    /\ run.games < Len(run_recent)

(***************************************************************************)
(* SpecShared: two browser sessions of one server.  st.session_state (and  *)
(* with it the Steam, SteamSpy and RAWG caches) is one object per session; *)
(* the cache of st.cache_data belongs to the decorated function and is     *)
(* shared by all sessions: a call with a region code whose entry is        *)
(* younger than the ttl returns the entry, any other call runs the body    *)
(* and stores what it returns, the failure string included.                *)
(***************************************************************************)
TRENDS_TTL == 3600

CacheHit(code) ==
    /\ trends_cache[code] # None
    /\ now - trends_cache[code].at < TRENDS_TTL

\* Step 1 of session s, use_google_trends checked:
\* trend_data = fetch_trends(region_code)
Step1Trends(s, code, resp) ==
    /\ LET value == IF CacheHit(code) THEN trends_cache[code].value
                     ELSE fetch_trends(code, resp)
           by == IF CacheHit(code) THEN trends_cache[code].by ELSE s
       IN  /\ trends_cache' =
                 IF CacheHit(code) THEN trends_cache
                 ELSE [trends_cache EXCEPT
                          ![code] = [value |-> value, at |-> now, by |-> s]]
           /\ obtained' = [obtained EXCEPT
                              ![s] = [code |-> code, value |-> value, by |-> by,
                                      at |-> now]]
    /\ UNCHANGED vars_but_shared

NextShared ==
    \/ \E s \in Sessions, code \in RegionCodes, resp \in TrendResponses :
          Step1Trends(s, code, resp)
    \/ Tick

SpecShared == Init /\ [][NextShared]_vars

(***************************************************************************)
(* C20: every result a session obtains from its Step-1 pipeline was        *)
(* fetched by that session itself; for the trends: what fetch_trends       *)
(* returns to a session was fetched by a call of this session.             *)
(***************************************************************************)
C20_Claim ==
    \A s \in Sessions : obtained[s] # None => obtained[s].by = s

\* Every provider call returns or times out, and every thread goes on.
SpecRunFair == SpecRun /\ WF_vars(NextRun)

(***************************************************************************)
(* C21: a Step-1 run terminates, with step = 2 or with an error shown and  *)
(* step = 1; fetch_steam_top100 sends at most one release-date check per   *)
(* item of the listing and at most one detail request per recent game.     *)
(***************************************************************************)
C21_Theorem ==
    /\ <>(run.pc = "done")
    /\ [](run.pc = "done" =>
            \/ step = 2 /\ ~run.error
            \/ step = 1 /\ run.error)
    /\ [](pool.started <= NumItems /\ in_flight["store"] <= pool.started)
    /\ [](run.details <= Len(run_recent) /\ Len(run_recent) <= NumItems)

\* The run ended with the error of the idea generation after detail
\* requests that failed.
C21_Witness ==
    /\ run.pc = "done"
    /\ run.error
    /\ step = 1
    /\ run.details > run.games
    /\ pool.started = NumItems

\* The mean of the non-zero values of s, 0 when there is none.
MeanNonZero(s) ==
    LET nz == SelectSeq(s, LAMBDA x : x # 0)
    IN  IF nz = <<>> THEN 0 ELSE SumSeq(nz) \div Len(nz)

(***************************************************************************)
(* C22: every average is the mean of the non-zero values: avg_price and    *)
(* avg_playtime of a genre, avg_price of a tag, and the average owners of  *)
(* a price tier of the report; entries whose value is missing, unparsable  *)
(* or 0 count neither in the sum nor in the number of values.              *)
(***************************************************************************)
C22_Claim ==
    /\ (called = "fetch_steamspy_genres" /\ IsDict(returned)) =>
          \A k \in 1..Len(returned.items) :
              LET e == returned.items[k]
                  i == CHOOSE n \in 1..Len(GenreList) : GenreList[n] = e.genre
                  listing == Take(served.requests[i].body.items, GenreSlice)
              IN  /\ e.info.avg_price =
                        MeanNonZero([j \in 1..Len(listing) |-> price_of(listing[j])])
                  /\ e.info.avg_playtime =
                        MeanNonZero([j \in 1..Len(listing) |->
                                        DictGet(listing[j], "average_forever", 0)])
    /\ (called = "fetch_steamspy_tags" /\ IsDict(returned)) =>
          \A k \in 1..Len(returned.items) :
              LET e == returned.items[k]
                  i == CHOOSE n \in 1..Len(TagList) : TagList[n] = e.tag
                  listing == Take(served.requests[i].body.items, TagSlice)
              IN  e.info.avg_price =
                      MeanNonZero([j \in 1..Len(listing) |-> price_of(listing[j])])
    /\ (Formatted /\ rendered.out.price_buckets # None) =>
          \A k \in 1..Len(rendered.out.price_lines) :
              LET line == rendered.out.price_lines[k]
              IN  line.avg = MeanNonZero(rendered.out.price_buckets[line.bucket])

(***************************************************************************)
(* C23: the result of fetch_steam_top100 is the same for every order in    *)
(* which the release-date checks complete: it is the result obtained when  *)
(* they complete in the order of the listing, so that games of equal       *)
(* average_2weeks stand in the order of the listing.                       *)
(***************************************************************************)
C23_Claim ==
    called = "fetch_steam_top100" =>
        returned = fetch_steam_top100(served.recent_years, served.requests[1],
                                      [k \in 1..Listed(served.requests[1]) |-> k])

\* The number of collected games whose list names the entry.
GamesNaming(games, field, entry) ==
    Cardinality({i \in 1..Len(games) :
                    \E j \in 1..Len(games[i][field]) : games[i][field][j] = entry})

(***************************************************************************)
(* C24: in a result of fetch_steam_top100 the count of every genre of      *)
(* top_genres is the number of collected games whose genre list contains   *)
(* it, and the count of every tag of top_tags is the number of collected   *)
(* games whose tags contain it; skipped and failed games count nowhere.    *)
(***************************************************************************)
C24_Claim ==
    (called = "fetch_steam_top100" /\ IsDict(returned)) =>
        /\ \A k \in 1..Len(returned.top_genres) :
              returned.top_genres[k].key =
                  GamesNaming(returned.games, "genre", returned.top_genres[k].item)
        /\ \A k \in 1..Len(returned.top_tags) :
              returned.top_tags[k].key =
                  GamesNaming(returned.games, "tags", returned.top_tags[k].item)

(***************************************************************************)
(* C25: every game of a result of fetch_steam_top100 has a non-zero        *)
(* average_2weeks and a release year of at least the current year minus    *)
(* recent_years, and the result holds at most 15 games.                    *)
(***************************************************************************)
C25_Claim ==
    (called = "fetch_steam_top100" /\ IsDict(returned)) =>
        /\ \A k \in 1..Len(returned.games) :
              /\ returned.games[k].average_2weeks # 0
              /\ returned.games[k].release_year >= ThisYear - served.recent_years
        /\ Len(returned.games) <= 15

\* A listing with an app nobody played, an old app and 16 recent apps gave
\* 15 games.
C25_Witness ==
    /\ called = "fetch_steam_top100"
    /\ IsDict(returned)
    /\ Listed(served.requests[1]) = 18
    /\ Len(returned.games) = 15

SpecOwners == Init /\ [][NextOwners]_vars

C27_Claim ==
    /\ step \in {1, 2, 3}
    /\ step >= 2 =>
          /\ game_ideas # None
          /\ game_ideas.kind = "list"
          /\ game_ideas.items # <<>>
    /\ step = 2 => ENABLED Regenerate
    /\ step = 3 =>
          /\ selected_idea # None
          /\ \E i \in 1..Len(game_ideas.items) :
                selected_idea.title = game_ideas.items[i]
    /\ design_doc # None => step = 3

(***************************************************************************)
(* C28: a failed SteamSpy genre or tag collection is never served from the *)
(* cache: a Step-1 run that takes the genre/tag data from the cache is     *)
(* given no failure string, neither for the genres nor for the tags.       *)
(***************************************************************************)
C28_Claim ==
    (last_run # None /\ last_run.kind = "step1" /\ last_run.genre_from = "cache") =>
        /\ ~IsStr(steamspy_genre_data.genres)
        /\ ~IsStr(steamspy_genre_data.tags)

(***************************************************************************)
(* C29: the blue-ocean section lists a genre only if the SteamSpy genre    *)
(* data has an entry for that genre whose game_count is below 2000, and    *)
(* the genre has at least 2 Metacritic scores whose mean is at least 75.   *)
(***************************************************************************)
C29_Claim ==
    Formatted =>
        \A k \in 1..Len(rendered.out.blue_ocean) :
            LET e == rendered.out.blue_ocean[k]
            IN  /\ IsDict(rendered.args.steamspy_genres)
                /\ \E j \in 1..Len(rendered.args.steamspy_genres.items) :
                      LET g == rendered.args.steamspy_genres.items[j]
                      IN  g.genre = e.genre /\ g.info.game_count < BLUE_OCEAN_GAMES
                /\ Len(e.scores) >= 2
                /\ SumSeq(e.scores) >= BLUE_OCEAN_SCORE * Len(e.scores)

(***************************************************************************)
(* C30: in FanDNA step leaves start only for survey and only with a        *)
(* non-empty list of questions stored, leaves survey only for analyzing    *)
(* with the answers of the form stored, and leaves analyzing only for      *)
(* result with the recommendation stored; step = survey implies that       *)
(* selected_questions is a non-empty list and step = result that a result  *)
(* is stored.                                                              *)
(***************************************************************************)
QuestionsStored(questions) ==
    questions.kind = "list" /\ questions.items # <<>>

C30_Step ==
    /\ (fan_step = "start" /\ fan_step' # "start") =>
          fan_step' = "survey" /\ QuestionsStored(fan_questions')
    /\ (fan_step = "survey" /\ fan_step' # "survey") =>
          /\ fan_step' = "analyzing"
          /\ fan_answers'.kind = "list"
          /\ Len(fan_answers'.items) = Len(fan_questions.items)
    /\ (fan_step = "analyzing" /\ fan_step' # "analyzing") =>
          /\ fan_step' = "result"
          /\ fan_result' # Absent /\ fan_result' # None
          /\ fan_result'.answers = fan_answers

C30_Claim ==
    /\ [][C30_Step]_vars
    /\ [](fan_step = "survey" => QuestionsStored(fan_questions))
    /\ [](fan_step = "result" => fan_result # Absent /\ fan_result # None)

NextParse ==
    \/ \E c \in Chars : TypeChar(c)
    \/ LoadSample

\* SpecParse: strings typed into _parse_owners.
InitTyping == InitParse /\ InitSession(TRUE) /\ InitMarket /\ InitStarted /\ InitFan /\ InitText /\ InitRun
        /\ InitShared /\ InitOwners

SpecParse == InitTyping /\ [][NextParse]_vars

\* The ".."-separated parts of the string, thousands separators removed.
OwnerParts == SplitDots(RemoveCommas(owners_str))

PartNumeric(p) == ~IntOf(p).err

(***************************************************************************)
(* C1: a range string "L .. H" is mapped to (L+H) div 2, "10,000 .. 20,000"*)
(* to 15000, and every string with an empty or non-numeric part to 0.      *)
(***************************************************************************)
C1_Claim ==
    /\ owners_str = SampleOwners => parsed = 15000
    /\ (Len(OwnerParts) = 2 /\ \A i \in 1..2 : PartNumeric(OwnerParts[i]))
          => parsed = (IntOf(OwnerParts[1]).val + IntOf(OwnerParts[2]).val) \div 2
    /\ (\E i \in 1..Len(OwnerParts) : ~PartNumeric(OwnerParts[i])) => parsed = 0

====
